---- MODULE Spec2Model ----
(***************************************************************************)
(* State-machine model of two parts of the repository:                     *)
(*   - the Task Coordinator (src/agents/task_coordinator.py): tasks,       *)
(*     agents, the priority queue and the completed list;                  *)
(*   - the management backend (src/backend): users, tokens, and the        *)
(*     create operations of departments, employees and roles.              *)
(* Each part has its own specification over the shared variable tuple.     *)
(***************************************************************************)
EXTENDS Integers, Sequences, FiniteSets, TLC

VARIABLES
    tasks,            \* TaskCoordinatorAgent.tasks: task id -> TaskInfo
    agents,           \* TaskCoordinatorAgent.agents: name -> AgentInfo
    task_queue,       \* TaskCoordinatorAgent.task_queue: list of task ids
    completed_tasks,  \* TaskCoordinatorAgent.completed_tasks: list of task ids
    users,            \* table users: id -> row
    id_seq,           \* the last id the sequence of table users has handed out
    departments,      \* table departments: id -> row
    employees,        \* table employees: id -> row
    roles,            \* table roles: id -> row
    permissions,      \* table permissions: id -> row
    system_logs,      \* table system_logs: id -> row
    table_seq,        \* the last id handed out for each of these tables
    tokens,           \* the tokens the server has issued so far
    now,              \* the clock, in minutes
    resp,             \* the last HTTP response: route and status
    jwt_has_JWTError, \* whether the installed jwt module has an attribute JWTError
    rt,               \* token round trip: claims, issued token, verification
    reqs,             \* the POST /register requests in flight: request -> position
    pg                \* the last page a list endpoint has answered

coordVars == <<tasks, agents, task_queue, completed_tasks>>

authVars == <<users, id_seq, tokens, now, resp, jwt_has_JWTError>>

orgVars == <<departments, employees, roles, permissions, system_logs, table_seq>>

flightVars == <<reqs, pg>>

backendVars == <<users, id_seq, tokens, now, resp, jwt_has_JWTError, rt,
                 departments, employees, roles, permissions, system_logs, table_seq,
                 reqs, pg>>

vars == <<tasks, agents, task_queue, completed_tasks,
          users, id_seq, tokens, now, resp, jwt_has_JWTError, rt,
          departments, employees, roles, permissions, system_logs, table_seq,
          reqs, pg>>

----------------------------------------------------------------------------
(* Bounds of the model *)

MaxTasks == 2        \* create_task is called at most this many times
MaxDeps == 1         \* a created task lists at most this many dependency ids
MaxBatch == 2        \* process_queue is called with max_concurrent in 0..MaxBatch
MaxClock == 60       \* the clock stops at this minute
MaxUserId == 5       \* the users sequence hands out at most this many ids
MaxTokens == 4       \* the server issues at most this many tokens
MaxLevel == 2        \* departments are nested at most this deep
MaxLogs == 2         \* the system_logs sequence hands out at most this many ids
MaxTotal == 25       \* a listing matches at most this many rows
MaxSize == 10        \* the page size of a request is at most this
MaxPage == 4         \* the page number of a request is at most this
RecursionLimit == 4  \* the interpreter's recursion limit, scaled: more frames
                     \* than a tree of the departments of the model is deep

----------------------------------------------------------------------------
(* Task Coordinator: enumerations and data *)

TaskType == {"documentation", "code_analysis", "api_development", "testing",
             "refactoring", "deployment", "security_audit",
             "performance_optimization"}

TaskPriority == {1, 2, 3, 4}      \* LOW, MEDIUM, HIGH, CRITICAL

TaskStatus == {"pending", "assigned", "in_progress", "completed", "failed", "blocked"}

NoAgent == "None"            \* Python None where an agent name is expected
UnknownTaskId == 0           \* a uuid that create_task never returned
UnknownAgent == "unknown_agent"   \* a name that was never registered

AgentInfo(caps, ceiling) ==
    [capabilities |-> caps, max_concurrent_tasks |-> ceiling,
     current_tasks |-> <<>>, is_available |-> TRUE, performance_score |-> 1]

\* dict insertion order of self.agents after _register_default_agents
AgentOrder == <<"documentation_agent", "fastapi_backend_agent", "test_agent",
                "deployment_agent">>

\* a name register_agent adds after construction; a dict keeps insertion
\* order, so the new key comes last in self.agents.items()
NewAgent == "review_agent"
DictOrder == Append(AgentOrder, NewAgent)

DefaultAgents ==
    [n \in {AgentOrder[i] : i \in 1..Len(AgentOrder)} |->
        CASE n = "documentation_agent" ->
                AgentInfo({"documentation", "code_analysis"}, 2)
          [] n = "fastapi_backend_agent" ->
                AgentInfo({"api_development", "code_analysis", "refactoring",
                           "performance_optimization"}, 3)
          [] n = "test_agent" ->
                AgentInfo({"testing", "code_analysis", "performance_optimization"}, 4)
          [] n = "deployment_agent" ->
                AgentInfo({"deployment", "performance_optimization", "security_audit"}, 3)]

\* result: whether a result text is stored; error: <<>> for Python None,
\* <<text>> once execute_task stored a text
TaskInfo(ty, prio, deps) ==
    [task_type |-> ty, priority |-> prio, status |-> "pending",
     assigned_agent |-> NoAgent, dependencies |-> deps,
     result |-> FALSE, error |-> <<>>]

\* the exceptions an execution path lets escape, as type and args: a missing
\* module, and a timeout raised without a message
ModuleNotFound == [type |-> "ModuleNotFoundError", args |-> <<"No module named 'crewai'">>]
BareTimeout == [type |-> "TimeoutError", args |-> <<>>]
Exceptions == {ModuleNotFound, BareTimeout}

\* variant of str that renders the exception as repr does
str_Repr(e) ==
    IF Len(e.args) = 0 THEN e.type ELSE e.args[1]

\* str(e) of an exception: the empty string without args, the argument's
\* text with one
str(e) ==
    IF Len(e.args) = 0 THEN "" ELSE e.args[1]

\* the private execution paths that let an exception escape to execute_task
CanRaise(ty) == ty \notin {"deployment", "security_audit"}

\* the inputs the model draws for create_task, assign_task and process_queue
TaskTypesUsed == {"documentation", "security_audit"}
PrioritiesUsed == {2, 4}
AgentNamesUsed == {NoAgent, "test_agent", UnknownAgent}
\* the dependency lists a caller can pass: ids of existing tasks or an unknown id
DependencyLists ==
    {d \in SUBSET (DOMAIN tasks \cup {UnknownTaskId}) : Cardinality(d) <= MaxDeps}
\* the outcomes of the execution paths in one process_queue call: a path
\* runs only for a task the call finds pending, and only some paths can raise
Outcomes ==
    {oc \in [DOMAIN tasks -> BOOLEAN] :
        \A t \in DOMAIN tasks :
           (~CanRaise(tasks[t].task_type) \/ tasks[t].status # "pending") => oc[t]}

----------------------------------------------------------------------------
(* Task Coordinator: helpers *)

RECURSIVE RemoveFirst(_, _)
\* list.remove(x): drops the first occurrence of x
RemoveFirst(s, x) ==
    IF s = <<>> THEN <<>>
    ELSE IF Head(s) = x THEN Tail(s)
    ELSE <<Head(s)>> \o RemoveFirst(Tail(s), x)

InSeq(s, x) == \E i \in 1..Len(s) : s[i] = x

Count(s, x) == Cardinality({i \in 1..Len(s) : s[i] = x})

RECURSIVE InsertStable(_, _, _)
\* insert x into a list sorted by descending priority, after every element
\* whose priority is not lower (what a stable sort does with the last element)
InsertStable(s, x, tk) ==
    IF s = <<>> THEN <<x>>
    ELSE IF tk[Head(s)].priority >= tk[x].priority
         THEN <<Head(s)>> \o InsertStable(Tail(s), x, tk)
         ELSE <<x>> \o s

RECURSIVE SortQueue(_, _)
\* task_queue.sort(key=priority.value, reverse=True): a stable sort that
\* keeps the relative order of tasks with equal priority
SortQueue(q, tk) ==
    IF q = <<>> THEN <<>>
    ELSE InsertStable(SortQueue(SubSeq(q, 1, Len(q) - 1), tk), q[Len(q)], tk)


----------------------------------------------------------------------------
(* Task Coordinator: the methods, as functions of the coordinator state    *)
(* st = [tasks, agents, task_queue, completed_tasks, trans]; st.trans      *)
(* collects every status change <<from, to>> a call makes, in_progress     *)
(* included, which no caller can observe between two calls                 *)

CoordState == [tasks |-> tasks, agents |-> agents, task_queue |-> task_queue,
               completed_tasks |-> completed_tasks, trans |-> {}]

\* variant of Qualifies that does not look at the ceiling
Qualifies_AnyLoad(st, tid, n) ==
    /\ st.tasks[tid].task_type \in st.agents[n].capabilities
    /\ st.agents[n].is_available

\* find_best_agent: the capable, available agents below their ceiling, and
\* among them the first (in dict order) with the fewest current tasks
Qualifies(st, tid, n) ==
    /\ st.tasks[tid].task_type \in st.agents[n].capabilities
    /\ st.agents[n].is_available
    /\ Len(st.agents[n].current_tasks) < st.agents[n].max_concurrent_tasks

find_best_agent(st, tid) ==
    IF tid \notin DOMAIN st.tasks THEN NoAgent
    ELSE LET capable == {i \in 1..Len(DictOrder) :
                            /\ DictOrder[i] \in DOMAIN st.agents
                            /\ Qualifies(st, tid, DictOrder[i])}
             load(i) == Len(st.agents[DictOrder[i]].current_tasks)
         IN  IF capable = {} THEN NoAgent
             ELSE DictOrder[CHOOSE i \in capable :
                     \A j \in capable : load(i) < load(j) \/ (load(i) = load(j) /\ i <= j)]

\* variant of HasUnmetDependency that only looks for unregistered ids
HasUnmetDependency_MissingOnly(st, tid) ==
    \E d \in st.tasks[tid].dependencies : d \notin DOMAIN st.tasks

\* the dependency loop of assign_task: some listed id is unregistered or not completed
HasUnmetDependency(st, tid) ==
    \E d \in st.tasks[tid].dependencies :
        d \notin DOMAIN st.tasks \/ st.tasks[d].status # "completed"

\* variant of Assignable that also lets a blocked or failed task through
Assignable_AnyUnfinished(st, tid) ==
    tid \in DOMAIN st.tasks /\ st.tasks[tid].status \in {"pending", "blocked", "failed"}

\* the first guard of assign_task: the task is registered and pending
Assignable(st, tid) ==
    tid \in DOMAIN st.tasks /\ st.tasks[tid].status = "pending"

\* the guard of execute_task: the task is registered and assigned
Executable(st, tid) ==
    tid \in DOMAIN st.tasks /\ st.tasks[tid].status = "assigned"

\* variant of AtCeiling that lets an agent take one task more than its ceiling
AtCeiling_Strict(st, name) ==
    Len(st.agents[name].current_tasks) > st.agents[name].max_concurrent_tasks

\* the last guard of assign_task: the chosen agent holds as many tasks as it may
AtCeiling(st, name) ==
    Len(st.agents[name].current_tasks) >= st.agents[name].max_concurrent_tasks

\* assign_task(task_id, agent_name): returns [st, ret]
assign_task(st, tid, agent_name) ==
    IF ~Assignable(st, tid)
    THEN [st |-> st, ret |-> FALSE]
    ELSE IF HasUnmetDependency(st, tid)
    THEN [st |-> [st EXCEPT !.tasks[tid].status = "blocked",
                            !.trans = @ \cup {<<st.tasks[tid].status, "blocked">>}],
          ret |-> FALSE]
    ELSE LET name == IF agent_name = NoAgent THEN find_best_agent(st, tid)
                     ELSE agent_name
         IN  IF name = NoAgent \/ name \notin DOMAIN st.agents
             THEN [st |-> st, ret |-> FALSE]
             ELSE IF AtCeiling(st, name)
             THEN [st |-> st, ret |-> FALSE]
             ELSE [st |-> [st EXCEPT !.tasks[tid].assigned_agent = name,
                                     !.tasks[tid].status = "assigned",
                                     !.agents[name].current_tasks = Append(@, tid),
                                     !.trans = @ \cup {<<st.tasks[tid].status, "assigned">>}],
                   ret |-> TRUE]

\* variant of ReleaseSlot that leaves the task in its agent's list
ReleaseSlot_Keep(st, tid) ==
    st.agents

\* the clean-up of execute_task after a successful run: the task id leaves
\* the current-task list of its assigned agent
ReleaseSlot(st, tid) ==
    LET a == st.tasks[tid].assigned_agent
    IN  IF a # NoAgent
        THEN [st.agents EXCEPT ![a].current_tasks = RemoveFirst(@, tid)]
        ELSE st.agents

\* variant of LeaveQueue that keeps a completed task in the queue
LeaveQueue_Stay(st, tid) ==
    st.task_queue

\* the last step of a successful execute_task: the id leaves task_queue
LeaveQueue(st, tid) ==
    RemoveFirst(st.task_queue, tid)

\* execute_task(task_id); ok says whether the dispatched execution path
\* returned (TRUE) or raised the exception e (FALSE): returns [st, ret]
execute_task_raising(st, tid, ok, e) ==
    IF ~Executable(st, tid)
    THEN [st |-> st, ret |-> FALSE]
    ELSE IF ok
    THEN [st |-> [st EXCEPT !.tasks[tid].status = "completed",
                            !.tasks[tid].result = TRUE,
                            !.agents = ReleaseSlot(st, tid),
                            !.completed_tasks = Append(@, tid),
                            !.task_queue = LeaveQueue(st, tid),
                            !.trans = @ \cup {<<st.tasks[tid].status, "in_progress">>,
                                              <<"in_progress", "completed">>}],
          ret |-> TRUE]
    ELSE [st |-> [st EXCEPT !.tasks[tid].status = "failed",
                            !.tasks[tid].error = <<str(e)>>,
                            !.trans = @ \cup {<<st.tasks[tid].status, "in_progress">>,
                                              <<"in_progress", "failed">>}],
          ret |-> FALSE]

\* execute_task where a raising execution path raises ModuleNotFound
execute_task(st, tid, ok) ==
    execute_task_raising(st, tid, ok, ModuleNotFound)

\* variant of create_task that appends without re-sorting the queue
create_task_NoSort(st, ty, prio, deps) ==
    LET id == Cardinality(DOMAIN st.tasks) + 1
        tk == [t \in DOMAIN st.tasks \cup {id} |->
                  IF t = id THEN TaskInfo(ty, prio, deps) ELSE st.tasks[t]]
    IN  [st |-> [st EXCEPT !.tasks = tk, !.task_queue = Append(st.task_queue, id)],
         ret |-> id]

\* create_task(title, description, task_type, priority, dependencies):
\* registers the task under a fresh id, appends it to the queue and re-sorts
\* the queue; returns [st, ret] with ret the new id
create_task(st, ty, prio, deps) ==
    LET id == Cardinality(DOMAIN st.tasks) + 1
        tk == [t \in DOMAIN st.tasks \cup {id} |->
                  IF t = id THEN TaskInfo(ty, prio, deps) ELSE st.tasks[t]]
    IN  [st |-> [st EXCEPT !.tasks = tk,
                           !.task_queue = SortQueue(Append(st.task_queue, id), tk)],
         ret |-> id]

RECURSIVE process_queue_loop(_, _, _, _, _, _)
\* the for loop of process_queue over the snapshot task_queue[:];
\* r counts processed/completed/failed, oc[tid] is the outcome of tid's execution
process_queue_loop(st, snapshot, i, r, max_concurrent, oc) ==
    IF i > Len(snapshot) \/ r.processed >= max_concurrent
    THEN [st |-> st, r |-> r]
    ELSE LET tid == snapshot[i] IN
         IF st.tasks[tid].status # "pending"
         THEN process_queue_loop(st, snapshot, i + 1, r, max_concurrent, oc)
         ELSE LET a == assign_task(st, tid, NoAgent) IN
              IF ~a.ret
              THEN process_queue_loop(a.st, snapshot, i + 1, r, max_concurrent, oc)
              ELSE LET e == execute_task(a.st, tid, oc[tid])
                       r2 == [processed |-> r.processed + 1,
                              completed |-> r.completed + (IF e.ret THEN 1 ELSE 0),
                              failed |-> r.failed + (IF e.ret THEN 0 ELSE 1)]
                   IN  process_queue_loop(e.st, snapshot, i + 1, r2, max_concurrent, oc)

process_queue(st, max_concurrent, oc) ==
    process_queue_loop(st, st.task_queue, 1,
                       [processed |-> 0, completed |-> 0, failed |-> 0],
                       max_concurrent, oc)

----------------------------------------------------------------------------
(* Task Coordinator: state machine *)

CoordInit ==
    /\ tasks = << >>
    /\ agents = DefaultAgents
    /\ task_queue = <<>>
    /\ completed_tasks = <<>>
    /\ users = << >>
    /\ id_seq = 0
    /\ tokens = {}
    /\ now = 0
    /\ resp = "None"
    /\ jwt_has_JWTError = FALSE
    /\ rt = "None"
    /\ departments = << >>
    /\ employees = << >>
    /\ roles = << >>
    /\ permissions = << >>
    /\ system_logs = << >>
    /\ table_seq = [departments |-> 0, employees |-> 0, roles |-> 0,
                    permissions |-> 0, system_logs |-> 0]
    /\ reqs = << >>
    /\ pg = "None"

Install(st) ==
    /\ tasks' = st.tasks
    /\ agents' = st.agents
    /\ task_queue' = st.task_queue
    /\ completed_tasks' = st.completed_tasks
    /\ UNCHANGED backendVars

\* create_task: ids are fresh uuids, modelled as 1, 2, ...; a dependency id is
\* a known task id or an id no task has
CreateTask ==
    /\ Cardinality(DOMAIN tasks) < MaxTasks
    /\ \E ty \in TaskTypesUsed, prio \in PrioritiesUsed, deps \in DependencyLists :
          Install(create_task(CoordState, ty, prio, deps).st)

AssignTask ==
    \E tid \in DOMAIN tasks \cup {UnknownTaskId}, name \in AgentNamesUsed :
        Install(assign_task(CoordState, tid, name).st)

ExecuteTask ==
    \E tid \in DOMAIN tasks \cup {UnknownTaskId}, ok \in BOOLEAN :
        /\ tid \in DOMAIN tasks /\ ~CanRaise(tasks[tid].task_type) => ok
        /\ Install(execute_task(CoordState, tid, ok).st)

ProcessQueue ==
    \E n \in 0..MaxBatch, oc \in Outcomes :
        Install(process_queue(CoordState, n, oc).st)

CoordNext == CreateTask \/ AssignTask \/ ExecuteTask \/ ProcessQueue

Spec == CoordInit /\ [][CoordNext]_vars

----------------------------------------------------------------------------
(* Task Coordinator: the calls a client can make in the current state *)

\* the state after every possible assign_task, execute_task, process_queue
\* and create_task call made in the current state
AssignCalls ==
    {assign_task(CoordState, tid, name) :
        tid \in DOMAIN tasks \cup {UnknownTaskId}, name \in AgentNamesUsed}

ExecuteCalls ==
    {execute_task(CoordState, tid, ok) :
        tid \in DOMAIN tasks \cup {UnknownTaskId}, ok \in BOOLEAN}

ProcessCalls ==
    {process_queue(CoordState, n, oc) : n \in 0..MaxBatch, oc \in Outcomes}

CreateCalls ==
    {create_task(CoordState, ty, prio, deps) :
        ty \in TaskTypesUsed, prio \in PrioritiesUsed, deps \in DependencyLists}

StatesAfterCall ==
    {c.st : c \in AssignCalls} \cup {c.st : c \in ExecuteCalls}
        \cup {c.st : c \in ProcessCalls} \cup {c.st : c \in CreateCalls}

DependenciesCompleted(t) ==
    \A d \in tasks[t].dependencies :
        d \in DOMAIN tasks /\ tasks[d].status = "completed"

SomeAgentFree(t) ==
    \E n \in DOMAIN agents :
        /\ tasks[t].task_type \in agents[n].capabilities
        /\ agents[n].is_available
        /\ Len(agents[n].current_tasks) < agents[n].max_concurrent_tasks

----------------------------------------------------------------------------
(* Task Coordinator: claims *)

\* C1: a task that assign_task has blocked on a dependency can be assigned
\* once that dependency is completed: with every dependency completed and a
\* capable, available agent below its ceiling, assign_task on the blocked
\* task returns true and the task becomes assigned.
C1_BlockedTaskAssignableAfterDependency ==
    \A t \in DOMAIN tasks :
        (/\ tasks[t].status = "blocked"
         /\ DependenciesCompleted(t)
         /\ SomeAgentFree(t))
        => LET a == assign_task(CoordState, t, NoAgent)
           IN  a.ret /\ a.st.tasks[t].status = "assigned"

\* C2: every task that is assigned, in progress, completed or failed has all
\* ids of its dependency list registered and completed; assign_task on a
\* pending task with a missing or non-completed dependency returns false,
\* records no agent, changes no agent's current-task list and sets the task
\* to blocked.
C2_DependencyGating ==
    /\ \A t \in DOMAIN tasks :
          tasks[t].status \in {"assigned", "in_progress", "completed", "failed"}
          => DependenciesCompleted(t)
    /\ \A t \in DOMAIN tasks, name \in AgentNamesUsed :
          (tasks[t].status = "pending" /\ ~DependenciesCompleted(t))
          => LET a == assign_task(CoordState, t, name)
             IN  /\ ~a.ret
                 /\ a.st.tasks[t].assigned_agent = NoAgent
                 /\ a.st.agents = agents
                 /\ a.st.tasks[t].status = "blocked"

\* a task with a dependency has passed the gate, after the task it depends
\* on was completed
Witness_C2 ==
    \E t \in DOMAIN tasks :
        /\ tasks[t].dependencies # {}
        /\ tasks[t].status \in {"assigned", "completed", "failed"}

LifeCycle ==
    {<<"pending", "assigned">>, <<"assigned", "in_progress">>,
     <<"in_progress", "completed">>, <<"in_progress", "failed">>,
     <<"pending", "blocked">>}

\* the coordinator state st a call leaves behind differs from the current
\* state only by changes of the life cycle
LifeCycleKept(st) ==
    /\ st.trans \subseteq LifeCycle
    /\ \A t \in DOMAIN tasks :
          /\ tasks[t].status \in {"completed", "failed", "blocked"}
             => st.tasks[t].status = tasks[t].status
          /\ tasks[t].status # "pending" => st.tasks[t].status # "pending"
          /\ st.tasks[t].status # tasks[t].status
             => \E x \in st.trans : x[2] = st.tasks[t].status

\* C3: every status change made by a create_task, assign_task, execute_task
\* or process_queue call is one of pending->assigned, assigned->in_progress,
\* in_progress->completed, in_progress->failed, pending->blocked; a
\* completed, failed or blocked task keeps its status, and no call makes a
\* task pending again. create_task is called while fewer than MaxTasks
\* tasks exist, as in CreateTask.
C3_TaskLifeCycle ==
    /\ \A tid \in DOMAIN tasks \cup {UnknownTaskId}, name \in AgentNamesUsed :
          LifeCycleKept(assign_task(CoordState, tid, name).st)
    /\ \A tid \in DOMAIN tasks \cup {UnknownTaskId}, ok \in BOOLEAN :
          LifeCycleKept(execute_task(CoordState, tid, ok).st)
    /\ \A n \in 0..MaxBatch, oc \in Outcomes :
          LifeCycleKept(process_queue(CoordState, n, oc).st)
    /\ Cardinality(DOMAIN tasks) < MaxTasks =>
          \A ty \in TaskTypesUsed, prio \in PrioritiesUsed, deps \in DependencyLists :
             LifeCycleKept(create_task(CoordState, ty, prio, deps).st)

\* one task has failed and another one is blocked: calls are made in a state
\* that holds tasks in statuses the claim says are never left
Witness_C3 ==
    \E t, u \in DOMAIN tasks :
        tasks[t].status = "failed" /\ tasks[u].status = "blocked"

\* C4: a failed task can be re-driven by the caller: calling assign_task and
\* then execute_task on it runs it again, so not both calls are refused.
C4_FailedTaskCanBeRedriven ==
    \A t \in DOMAIN tasks :
        tasks[t].status = "failed"
        => LET a == assign_task(CoordState, t, NoAgent)
               e == execute_task(a.st, t, TRUE)
           IN  a.ret \/ e.ret

\* C5: task_queue is ordered by non-increasing priority value, whatever the
\* order in which the tasks were created.
C5_QueueOrderedByPriority ==
    \A i, j \in 1..Len(task_queue) :
        i < j => tasks[task_queue[i]].priority >= tasks[task_queue[j]].priority

\* a task created later stands in the queue before an earlier one of lower priority
Witness_C5 ==
    \E i, j \in 1..Len(task_queue) :
        /\ i < j
        /\ task_queue[i] > task_queue[j]
        /\ tasks[task_queue[i]].priority > tasks[task_queue[j]].priority

----------------------------------------------------------------------------
(* Backend: configuration and the security manager *)

ACCESS_TOKEN_EXPIRE_MINUTES == 30
REFRESH_TOKEN_EXPIRE_DAYS == 7
MinutesPerDay == 1440

SECRET_KEY == "your-secret-key-change-this-in-production"

None == "None"      \* Python None

\* hash_password / verify_password: a salted one-way hash that
\* verify_password matches against the plain text it was made from
hash_password(password) == <<"bcrypt", password>>

verify_password(plain_password, hashed_password) ==
    hashed_password = hash_password(plain_password)

\* jwt.encode: the claims, signed with the key
jwt_encode(claims, key) == [payload |-> claims, sig |-> key]

\* to_encode = data.copy(); to_encode.update({"exp": expire, "type": ty})
WithExpAndType(data, expire, ty) ==
    [k \in DOMAIN data \cup {"exp", "type"} |->
        IF k = "exp" THEN expire ELSE IF k = "type" THEN ty ELSE data[k]]

\* "if expires_delta": an optional timedelta is <<>> (None) or <<minutes>>,
\* and timedelta(0) is as false as None
Truthy(expires_delta) == expires_delta # <<>> /\ expires_delta[1] # 0

\* create_access_token(data, expires_delta) called at time t
create_access_token(data, expires_delta, t) ==
    LET expire == IF Truthy(expires_delta) THEN t + expires_delta[1]
                  ELSE t + ACCESS_TOKEN_EXPIRE_MINUTES
    IN  jwt_encode(WithExpAndType(data, expire, "access"), SECRET_KEY)

\* create_refresh_token(data) called at time t
create_refresh_token(data, t) ==
    jwt_encode(WithExpAndType(data, t + REFRESH_TOKEN_EXPIRE_DAYS * MinutesPerDay,
                              "refresh"), SECRET_KEY)

\* jwt.decode at time t: signature first, then the exp claim
jwt_decode(token, key, t) ==
    IF token.sig # key THEN [ok |-> FALSE, error |-> "DecodeError"]
    ELSE IF "exp" \in DOMAIN token.payload /\ token.payload["exp"] <= t
    THEN [ok |-> FALSE, error |-> "ExpiredSignatureError"]
    ELSE [ok |-> TRUE, payload |-> token.payload]

HTTP_401(detail) == [ok |-> FALSE, error |-> "HTTPException", status |-> 401,
                     detail |-> detail]

\* what leaves verify_token when an exception that is not ExpiredSignatureError
\* reaches the clause "except jwt.JWTError": the handler's HTTPException if
\* the clause matches, the exception itself if it does not, and an
\* AttributeError if the jwt module has no attribute JWTError
AtJWTErrorClause(has_JWTError, is_jwt_error, passed_on) ==
    IF ~has_JWTError
    THEN [ok |-> FALSE, error |-> "AttributeError", status |-> 500, detail |-> "JWTError"]
    ELSE IF is_jwt_error THEN HTTP_401("Could not validate credentials")
    ELSE passed_on

\* variant of TypeMatches that accepts every type claim
TypeMatches_Always(payload, token_type) == TRUE

\* the check payload.get("type") != token_type of verify_token, negated
TypeMatches(payload, token_type) ==
    "type" \in DOMAIN payload /\ payload["type"] = token_type

\* verify_token(token, token_type) called at time t
verify_token(token, token_type, t, has_JWTError) ==
    LET d == jwt_decode(token, SECRET_KEY, t) IN
    IF ~d.ok
    THEN IF d.error = "ExpiredSignatureError" THEN HTTP_401("Token has expired")
         ELSE AtJWTErrorClause(has_JWTError, TRUE, d)
    ELSE IF ~TypeMatches(d.payload, token_type)
    THEN AtJWTErrorClause(has_JWTError, FALSE, HTTP_401("Invalid token type"))
    ELSE [ok |-> TRUE, payload |-> d.payload]

\* get_user_id_from_token(token) called at time t
get_user_id_from_token(token, t, has_JWTError) ==
    LET v == verify_token(token, "access", t, has_JWTError) IN
    IF ~v.ok THEN v
    ELSE IF "user_id" \notin DOMAIN v.payload
    THEN HTTP_401("Invalid token payload")
    ELSE [ok |-> TRUE, user_id |-> v.payload["user_id"]]

----------------------------------------------------------------------------
(* Backend: token round trip through the security manager *)

\* the claim maps handed to create_access_token: user_id and username, and
\* possibly a further claim
ClaimMaps ==
    {[user_id |-> u, username |-> n] : u \in {1, 2}, n \in {"alice", "bob"}}
    \cup {[user_id |-> u, username |-> n, role |-> "admin"] :
             u \in {1, 2}, n \in {"alice", "bob"}}

ExpiresDeltas == {<<>>, <<0>>, <<ACCESS_TOKEN_EXPIRE_MINUTES>>,
                  <<2 * ACCESS_TOKEN_EXPIRE_MINUTES>>}

CoordIdle ==
    /\ tasks = << >>
    /\ agents = DefaultAgents
    /\ task_queue = <<>>
    /\ completed_tasks = <<>>

\* create_tables() on an empty database: the organisation tables have no rows
OrgEmpty ==
    /\ departments = << >>
    /\ employees = << >>
    /\ roles = << >>
    /\ permissions = << >>
    /\ system_logs = << >>
    /\ table_seq = [departments |-> 0, employees |-> 0, roles |-> 0,
                    permissions |-> 0, system_logs |-> 0]

\* no request is in flight and no page has been answered
FlightIdle ==
    /\ reqs = << >>
    /\ pg = "None"

TokenInit ==
    /\ CoordIdle
    /\ users = << >>
    /\ id_seq = 0
    /\ tokens = {}
    /\ resp = "None"
    /\ now = 0
    /\ jwt_has_JWTError \in BOOLEAN
    /\ OrgEmpty
    /\ FlightIdle
    /\ \E data \in ClaimMaps, delta \in ExpiresDeltas :
          rt = [stage |-> "claims", data |-> data, expires_delta |-> delta]

\* token = security.create_access_token(data, expires_delta)
RtCreateAccessToken ==
    /\ rt.stage = "claims"
    /\ rt' = [stage |-> "issued", data |-> rt.data, expires_delta |-> rt.expires_delta,
              token |-> create_access_token(rt.data, rt.expires_delta, now)]
    /\ UNCHANGED <<coordVars, authVars, orgVars, flightVars>>

\* security.verify_token(token, token_type)
RtVerifyToken ==
    /\ rt.stage = "issued"
    /\ \E token_type \in {"access", "refresh"} :
          rt' = [stage |-> "verified", data |-> rt.data,
                 expires_delta |-> rt.expires_delta, token |-> rt.token,
                 token_type |-> token_type, at |-> now,
                 result |-> verify_token(rt.token, token_type, now, jwt_has_JWTError)]
    /\ UNCHANGED <<coordVars, authVars, orgVars, flightVars>>

\* time passes
RtTick ==
    /\ now < MaxClock
    /\ now' = IF now + ACCESS_TOKEN_EXPIRE_MINUTES > MaxClock THEN MaxClock
              ELSE now + ACCESS_TOKEN_EXPIRE_MINUTES
    /\ UNCHANGED <<coordVars, users, id_seq, tokens, resp, jwt_has_JWTError, rt, orgVars,
                   flightVars>>

TokenNext == RtCreateAccessToken \/ RtVerifyToken \/ RtTick

SpecToken == TokenInit /\ [][TokenNext]_vars

\* C8: verify_token(create_access_token(claims), "access"), evaluated before
\* the expiry instant, returns a payload with every supplied claim unchanged,
\* type = access and an exp claim; verify_token of the same token with
\* token_type "refresh" fails with an authentication error (HTTP 401).
C8_TokenRoundTrip ==
    rt.stage = "verified" =>
        /\ (rt.token_type = "access" /\ rt.at < rt.token.payload["exp"])
           => /\ rt.result.ok
              /\ \A k \in DOMAIN rt.data :
                    k \in DOMAIN rt.result.payload /\ rt.result.payload[k] = rt.data[k]
              /\ rt.result.payload["type"] = "access"
              /\ "exp" \in DOMAIN rt.result.payload
        /\ rt.token_type = "refresh"
           => /\ ~rt.result.ok
              /\ rt.result.error = "HTTPException"
              /\ rt.result.status = 401

----------------------------------------------------------------------------
(* Backend: users, authentication and the dependency providers *)

NoUser == 0          \* Python None where a user row is expected

UserRow(username, email, password, superuser) ==
    [username |-> username, email |-> email,
     hashed_password |-> hash_password(password),
     is_active |-> TRUE, is_superuser |-> superuser]

\* db.add(row); db.commit() on table users: the next id of the sequence
InsertUser(us, seq, row) ==
    [i \in DOMAIN us \cup {seq + 1} |-> IF i = seq + 1 THEN row ELSE us[i]]

\* the unique constraints of users.username and users.email
UserConflict(us, row) ==
    \E i \in DOMAIN us : us[i].username = row.username \/ us[i].email = row.email

\* get_user_by_username / get_user_by_email: is there such a row
UsernameTaken(us, username) == \E i \in DOMAIN us : us[i].username = username
EmailTaken(us, email) == \E i \in DOMAIN us : us[i].email = email

\* the rows that satisfy or_(User.username == username, User.email == username);
\* .first() returns one of them, and no ORDER BY says which
MatchingUsers(us, username) ==
    {i \in DOMAIN us : us[i].username = username \/ us[i].email = username}

\* the checks authenticate_user makes on the row it found
MayLogIn(us, i, password) ==
    us[i].is_active /\ verify_password(password, us[i].hashed_password)

\* authenticate_user(db, username, password): the users it can return
\* (NoUser for None), one for each row .first() may pick
authenticate_user(us, username, password) ==
    IF MatchingUsers(us, username) = {} THEN {NoUser}
    ELSE {IF MayLogIn(us, i, password) THEN i ELSE NoUser :
             i \in MatchingUsers(us, username)}

\* create_user(db, user): [ok, users] or the ValueError
create_user(us, seq, u) ==
    IF u.password # u.confirm_password THEN [ok |-> FALSE, error |-> "password mismatch"]
    ELSE IF UsernameTaken(us, u.username) THEN [ok |-> FALSE, error |-> "username exists"]
    ELSE IF EmailTaken(us, u.email) THEN [ok |-> FALSE, error |-> "email exists"]
    ELSE [ok |-> TRUE,
          users |-> InsertUser(us, seq, UserRow(u.username, u.email, u.password, FALSE))]

\* variant of IsLiveUser that only asks for the row to exist
IsLiveUser_ExistsOnly(us, uid) == uid \in DOMAIN us

\* the two checks of get_current_user on the loaded user
IsLiveUser(us, uid) == uid \in DOMAIN us /\ us[uid].is_active

\* get_current_user(token): [ok, user_id] or the status of the HTTPException
get_current_user(us, token, t, has_JWTError) ==
    LET r == get_user_id_from_token(token, t, has_JWTError) IN
    IF ~r.ok THEN [ok |-> FALSE, status |-> 401]
    ELSE IF ~IsLiveUser(us, r.user_id) THEN [ok |-> FALSE, status |-> 401]
    ELSE [ok |-> TRUE, user_id |-> r.user_id]

\* get_current_active_user
get_current_active_user(us, token, t, has_JWTError) ==
    LET c == get_current_user(us, token, t, has_JWTError) IN
    IF ~c.ok THEN c
    ELSE IF ~us[c.user_id].is_active THEN [ok |-> FALSE, status |-> 400]
    ELSE c

\* get_current_superuser
get_current_superuser(us, token, t, has_JWTError) ==
    LET c == get_current_user(us, token, t, has_JWTError) IN
    IF ~c.ok THEN c
    ELSE IF ~us[c.user_id].is_superuser THEN [ok |-> FALSE, status |-> 403]
    ELSE c

\* the access and refresh token that /login and /refresh issue for a user
TokenPair(us, uid, t) ==
    LET data == [user_id |-> uid, username |-> us[uid].username] IN
    {create_access_token(data, <<ACCESS_TOKEN_EXPIRE_MINUTES>>, t),
     create_refresh_token(data, t)}

\* POST /login for the row authenticate_user returned
login(us, uid, t) ==
    IF uid = NoUser THEN [status |-> 401, issued |-> {}]
    ELSE [status |-> 200, issued |-> TokenPair(us, uid, t)]

\* POST /refresh
refresh_token(us, token, t, has_JWTError) ==
    LET v == verify_token(token, "refresh", t, has_JWTError) IN
    IF ~v.ok THEN [status |-> 401, issued |-> {}]
    ELSE IF "user_id" \notin DOMAIN v.payload \/ v.payload["user_id"] = 0
    THEN [status |-> 401, issued |-> {}]
    ELSE IF ~(v.payload["user_id"] \in DOMAIN us /\ us[v.payload["user_id"]].is_active)
    THEN [status |-> 401, issued |-> {}]
    ELSE [status |-> 200, issued |-> TokenPair(us, v.payload["user_id"], t)]

\* variant of logout that deactivates the session's user
logout_Deactivating(us, token, t, has_JWTError) ==
    LET c == get_current_user(us, token, t, has_JWTError) IN
    IF ~c.ok THEN [status |-> c.status, users |-> us]
    ELSE [status |-> 200, users |-> [us EXCEPT ![c.user_id].is_active = FALSE]]

\* POST /logout: the answer and the users table it leaves behind
logout(us, token, t, has_JWTError) ==
    LET c == get_current_user(us, token, t, has_JWTError) IN
    IF ~c.ok THEN [status |-> c.status, users |-> us]
    ELSE [status |-> 200, users |-> us]

\* a token that was not signed with SECRET_KEY
BadToken == [payload |-> [user_id |-> 1, username |-> "admin", exp |-> MaxClock + 1,
                          type |-> "access"],
             sig |-> "another-key"]

\* variant of create_superuser that does not look for an existing "admin"
create_superuser_NoCheck(us, seq) ==
    LET row == UserRow("admin", "admin@example.com", "admin123456", TRUE) IN
    IF UserConflict(us, row) THEN [ok |-> FALSE, users |-> us, seq |-> seq]
    ELSE [ok |-> TRUE, users |-> InsertUser(us, seq, row), seq |-> seq + 1]

\* create_superuser(): the admin row, unless a user "admin" exists; the
\* insert fails (and is rolled back) on a taken email
create_superuser(us, seq) ==
    IF UsernameTaken(us, "admin") THEN [ok |-> TRUE, users |-> us, seq |-> seq]
    ELSE LET row == UserRow("admin", "admin@example.com", "admin123456", TRUE) IN
         IF UserConflict(us, row) THEN [ok |-> FALSE, users |-> us, seq |-> seq]
         ELSE [ok |-> TRUE, users |-> InsertUser(us, seq, row), seq |-> seq + 1]

TestUsersData ==
    <<[username |-> "testuser1", email |-> "test1@example.com", password |-> "testpass123"],
      [username |-> "testuser2", email |-> "test2@example.com", password |-> "testpass123"],
      [username |-> "developer", email |-> "dev@example.com", password |-> "devpass123"]>>

RECURSIVE create_test_users_loop(_, _, _, _)
\* the loop of create_test_users: skip a taken username, else add the row;
\* a row that breaks a unique constraint fails the commit
create_test_users_loop(us, seq, i, ok) ==
    IF i > Len(TestUsersData) THEN [ok |-> ok, users |-> us, seq |-> seq]
    ELSE LET d == TestUsersData[i]
             row == UserRow(d.username, d.email, d.password, FALSE)
         IN  IF UsernameTaken(us, d.username)
             THEN create_test_users_loop(us, seq, i + 1, ok)
             ELSE IF UserConflict(us, row)
             THEN create_test_users_loop(us, seq, i + 1, FALSE)
             ELSE create_test_users_loop(InsertUser(us, seq, row), seq + 1, i + 1, ok)

\* create_test_users(): one commit for all rows, rolled back when it fails
create_test_users(us, seq) ==
    LET r == create_test_users_loop(us, seq, 1, TRUE) IN
    IF r.ok THEN r ELSE [ok |-> FALSE, users |-> us, seq |-> seq]

\* seed_database(): create_superuser, then create_test_users unless it raised
seed_database(us, seq) ==
    LET a == create_superuser(us, seq) IN
    IF ~a.ok THEN a ELSE create_test_users(a.users, a.seq)

----------------------------------------------------------------------------
(* Backend: state machine of the authentication routes *)

\* the request bodies the model sends to /register and /login
RegisterInputsAuth ==
    {[username |-> "alice", email |-> "alice@x.io", password |-> "alicepw1",
      confirm_password |-> c] : c \in {"alicepw1", "alicepw2"}}

LoginInputsAuth ==
    {[username |-> "admin", password |-> "admin123456"],
     [username |-> "alice", password |-> "alicepw1"],
     [username |-> "alice@x.io", password |-> "alicepw1"],
     [username |-> "alice", password |-> "alicepw2"]}

AuthInit ==
    /\ CoordIdle
    /\ users = << >>
    /\ id_seq = 0
    /\ tokens = {}
    /\ now = 0
    /\ resp = [route |-> "none", status |-> 0]
    /\ jwt_has_JWTError \in BOOLEAN
    /\ rt = "None"
    /\ OrgEmpty
    /\ FlightIdle

AuthFrame == UNCHANGED <<coordVars, jwt_has_JWTError, rt, orgVars, flightVars>>

\* python seed.py seed
SeedDatabase ==
    /\ id_seq + 4 <= MaxUserId
    /\ LET r == seed_database(users, id_seq) IN
       /\ users' = r.users
       /\ id_seq' = r.seq
    /\ resp' = [route |-> "seed", status |-> 0]
    /\ UNCHANGED <<tokens, now>>
    /\ AuthFrame

\* python seed.py reset, confirmed with "yes": delete every user, then seed
ResetDatabase ==
    /\ users # << >>
    /\ id_seq + 4 <= MaxUserId
    /\ LET r == seed_database(<< >>, id_seq) IN
       /\ users' = r.users
       /\ id_seq' = r.seq
    /\ resp' = [route |-> "reset", status |-> 0]
    /\ UNCHANGED <<tokens, now>>
    /\ AuthFrame

\* POST /register
Register(inputs) ==
    /\ id_seq < MaxUserId
    /\ \E u \in inputs :
          LET r == create_user(users, id_seq, u) IN
          IF r.ok
          THEN /\ users' = r.users
               /\ id_seq' = id_seq + 1
               /\ resp' = [route |-> "register", status |-> 201]
          ELSE /\ resp' = [route |-> "register", status |-> 400]
               /\ UNCHANGED <<users, id_seq>>
    /\ UNCHANGED <<tokens, now>>
    /\ AuthFrame

\* POST /login
Login(inputs) ==
    /\ Cardinality(tokens) + 2 <= MaxTokens
    /\ \E l \in inputs :
          \E uid \in authenticate_user(users, l.username, l.password) :
             LET r == login(users, uid, now) IN
             /\ tokens' = tokens \cup r.issued
             /\ resp' = [route |-> "login", status |-> r.status]
    /\ UNCHANGED <<users, id_seq, now>>
    /\ AuthFrame

\* POST /refresh
Refresh ==
    /\ Cardinality(tokens) + 2 <= MaxTokens
    /\ \E token \in tokens \cup {BadToken} :
          LET r == refresh_token(users, token, now, jwt_has_JWTError) IN
          /\ tokens' = tokens \cup r.issued
          /\ resp' = [route |-> "refresh", status |-> r.status]
    /\ UNCHANGED <<users, id_seq, now>>
    /\ AuthFrame

\* GET /users/me and POST /logout: bearer-protected, no change of state
BearerRequest ==
    /\ \E token \in tokens \cup {BadToken} :
          LET c == get_current_active_user(users, token, now, jwt_has_JWTError) IN
          resp' = [route |-> "users/me", status |-> IF c.ok THEN 200 ELSE c.status]
    /\ UNCHANGED <<users, id_seq, tokens, now>>
    /\ AuthFrame

\* POST /logout
Logout ==
    /\ \E token \in tokens \cup {BadToken} :
       \E r \in {logout(users, token, now, jwt_has_JWTError)} :
          /\ resp' = [route |-> "logout", status |-> r.status]
          /\ users' = r.users
    /\ UNCHANGED <<id_seq, tokens, now>>
    /\ AuthFrame

\* POST /users/{user_id}/deactivate and /activate
SetActive(route, value) ==
    /\ \E token \in tokens \cup {BadToken}, user_id \in 1..MaxUserId :
          LET c == get_current_superuser(users, token, now, jwt_has_JWTError) IN
          IF ~c.ok
          THEN /\ resp' = [route |-> route, status |-> c.status]
               /\ UNCHANGED users
          ELSE IF user_id \notin DOMAIN users
          THEN /\ resp' = [route |-> route, status |-> 404]
               /\ UNCHANGED users
          ELSE /\ users' = [users EXCEPT ![user_id].is_active = value]
               /\ resp' = [route |-> route, status |-> 200]
    /\ UNCHANGED <<id_seq, tokens, now>>
    /\ AuthFrame

DeactivateUser == SetActive("deactivate", FALSE)

ActivateUser == SetActive("activate", TRUE)

\* time passes
Tick ==
    /\ now < MaxClock
    /\ now' = IF now + ACCESS_TOKEN_EXPIRE_MINUTES > MaxClock THEN MaxClock
              ELSE now + ACCESS_TOKEN_EXPIRE_MINUTES
    /\ UNCHANGED <<users, id_seq, tokens, resp>>
    /\ AuthFrame

RegisterAuth == Register(RegisterInputsAuth)

LoginAuth == Login(LoginInputsAuth)

AuthNext ==
    \/ SeedDatabase \/ ResetDatabase \/ RegisterAuth \/ LoginAuth \/ Refresh
    \/ BearerRequest \/ Logout \/ DeactivateUser \/ ActivateUser \/ Tick

SpecAuth == AuthInit /\ [][AuthNext]_vars

----------------------------------------------------------------------------
(* Claims about the authentication routes *)

\* the dependency providers a bearer-protected endpoint can declare
BearerProviders(token) ==
    {get_current_user(users, token, now, jwt_has_JWTError),
     get_current_active_user(users, token, now, jwt_has_JWTError),
     get_current_superuser(users, token, now, jwt_has_JWTError)}

\* the user a token names is missing or inactive
NamesLockedOutUser(token) ==
    \/ token.payload["user_id"] \notin DOMAIN users
    \/ ~users[token.payload["user_id"]].is_active

Unexpired(token) == now < token.payload["exp"]

C7_TokenTypeSeparation ==
    \A token \in tokens \cup {BadToken} :
       /\ token.payload["type"] = "refresh" =>
             \A c \in BearerProviders(token) : ~c.ok /\ c.status = 401
       /\ token.payload["type"] = "access" =>
             LET r == refresh_token(users, token, now, jwt_has_JWTError) IN
             r.status = 401 /\ r.issued = {}
       /\ \A token_type \in {"access", "refresh"} :
             verify_token(token, token_type, now, jwt_has_JWTError).ok
                => token.payload["type"] = token_type

\* an active user holds an unexpired access token and an unexpired refresh
\* token, and /refresh has just refused a request
Witness_C7 ==
    /\ resp = [route |-> "refresh", status |-> 401]
    /\ \E a, r \in tokens :
          /\ a.payload["type"] = "access" /\ r.payload["type"] = "refresh"
          /\ Unexpired(a) /\ Unexpired(r)
          /\ ~NamesLockedOutUser(a) /\ ~NamesLockedOutUser(r)

----------------------------------------------------------------------------
(* Login by username or email, over users that registered *)

UsernamesLogin == {"alice", "bob", "bob@x.io"}

EmailsLogin == {"alice@x.io", "bob@x.io"}

PasswordsLogin == {"alicepw1", "bobpw123"}

RegisterInputsLogin ==
    {[username |-> n, email |-> e, password |-> pw, confirm_password |-> pw] :
        n \in UsernamesLogin, e \in EmailsLogin, pw \in PasswordsLogin}

LoginInputsLogin ==
    {[username |-> n, password |-> pw] :
        n \in UsernamesLogin \cup EmailsLogin, pw \in PasswordsLogin}

RegisterLogin == Register(RegisterInputsLogin)

LoginLogin == Login(LoginInputsLogin)

LoginNext == RegisterLogin \/ LoginLogin

SpecLogin == AuthInit /\ [][LoginNext]_vars

\* C9: for every active user u, authenticate_user with u's username and
\* u's password, and with u's email and u's password, returns u and nothing
\* else, whatever other users are registered
C9_LoginByUsernameOrEmail ==
    \A u \in DOMAIN users :
       users[u].is_active =>
          \A pw \in PasswordsLogin :
             verify_password(pw, users[u].hashed_password) =>
                /\ authenticate_user(users, users[u].username, pw) = {u}
                /\ authenticate_user(users, users[u].email, pw) = {u}

----------------------------------------------------------------------------
(* Backend: the create operations of users, departments, employees, roles *)

NullId == 0          \* Python None where an optional id is expected

NullCard == ""       \* Python None where an optional id_card is expected

\* db.add(row); db.commit(): the row gets the next id of its table
InsertRow(rows, seq, row) ==
    [i \in DOMAIN rows \cup {seq + 1} |-> IF i = seq + 1 THEN row ELSE rows[i]]

\* variant of CodeTaken that never finds a row
CodeTaken_Never(rows, code) == FALSE

\* get_department_by_code / get_role_by_code: is there a row with this code
CodeTaken(rows, code) == \E i \in DOMAIN rows : rows[i].code = code

\* DepartmentCRUD.create_department: the new table, the ValueError, or the
\* IntegrityError of the commit (unique code, foreign key parent_id)
create_department(deps, seq, d) ==
    IF CodeTaken(deps, d.code) THEN [ok |-> FALSE, error |-> "ValueError"]
    ELSE LET has_parent == d.parent_id # NullId /\ d.parent_id \in DOMAIN deps
             row == [name |-> d.name, code |-> d.code, parent_id |-> d.parent_id,
                     level |-> IF has_parent THEN deps[d.parent_id].level + 1 ELSE 1,
                     path |-> IF has_parent THEN Append(deps[d.parent_id].path, d.name)
                              ELSE <<d.name>>,
                     is_active |-> TRUE]
         IN  IF \/ \E i \in DOMAIN deps : deps[i].code = d.code
                \/ d.parent_id # NullId /\ d.parent_id \notin DOMAIN deps
             THEN [ok |-> FALSE, error |-> "IntegrityError"]
             ELSE [ok |-> TRUE, rows |-> InsertRow(deps, seq, row)]

\* get_employee_by_no: is there an employee with this number
EmployeeNoTaken(emps, employee_no) ==
    \E i \in DOMAIN emps : emps[i].employee_no = employee_no

\* variant of create_employee that takes status and is_active from the request
create_employee_StatusFromRequest(emps, us, deps, seq, e) ==
    IF EmployeeNoTaken(emps, e.employee_no) THEN [ok |-> FALSE, error |-> "ValueError"]
    ELSE IF \E i \in DOMAIN emps : emps[i].user_id = e.user_id
    THEN [ok |-> FALSE, error |-> "ValueError"]
    ELSE IF e.user_id \notin DOMAIN us THEN [ok |-> FALSE, error |-> "ValueError"]
    ELSE IF e.department_id # NullId /\ e.department_id \notin DOMAIN deps
    THEN [ok |-> FALSE, error |-> "ValueError"]
    ELSE [ok |-> TRUE,
          rows |-> InsertRow(emps, seq,
                      [employee_no |-> e.employee_no, user_id |-> e.user_id,
                       id_card |-> e.id_card, department_id |-> e.department_id,
                       status |-> e.status, is_active |-> e.is_active])]

\* EmployeeCRUD.create_employee
create_employee(emps, us, deps, seq, e) ==
    IF EmployeeNoTaken(emps, e.employee_no) THEN [ok |-> FALSE, error |-> "ValueError"]
    ELSE IF \E i \in DOMAIN emps : emps[i].user_id = e.user_id
    THEN [ok |-> FALSE, error |-> "ValueError"]
    ELSE IF e.user_id \notin DOMAIN us THEN [ok |-> FALSE, error |-> "ValueError"]
    ELSE IF e.department_id # NullId /\ e.department_id \notin DOMAIN deps
    THEN [ok |-> FALSE, error |-> "ValueError"]
    ELSE LET row == [employee_no |-> e.employee_no, user_id |-> e.user_id,
                     id_card |-> e.id_card, department_id |-> e.department_id,
                     status |-> "probation", is_active |-> TRUE]
         IN  IF \E i \in DOMAIN emps :
                   \/ emps[i].employee_no = e.employee_no
                   \/ emps[i].user_id = e.user_id
                   \/ e.id_card # NullCard /\ emps[i].id_card = e.id_card
             THEN [ok |-> FALSE, error |-> "IntegrityError"]
             ELSE [ok |-> TRUE, rows |-> InsertRow(emps, seq, row)]

\* RoleCRUD.create_role, with no permission_ids
create_role(rs, seq, r) ==
    IF CodeTaken(rs, r.code) THEN [ok |-> FALSE, error |-> "ValueError"]
    ELSE LET row == [name |-> r.name, code |-> r.code, is_active |-> TRUE,
                     is_system |-> FALSE]
         IN  IF \E i \in DOMAIN rs : rs[i].code = r.code \/ rs[i].name = r.name
             THEN [ok |-> FALSE, error |-> "IntegrityError"]
             ELSE [ok |-> TRUE, rows |-> InsertRow(rs, seq, row)]

\* the status a create route answers for the outcome of its CRUD call:
\* 201, 400 for the ValueError, 500 for any other exception
CreateStatus(r) ==
    IF r.ok THEN 201 ELSE IF r.error = "ValueError" THEN 400 ELSE 500

\* the table a create route leaves behind
RowsAfter(r, rows) == IF r.ok THEN r.rows ELSE rows

\* the sequence value a create route leaves behind
SeqAfter(r, seq) == IF r.ok THEN seq + 1 ELSE seq

\* POST /register: create_user, then the status of the route
register(us, seq, u) ==
    LET r == create_user(us, seq, u) IN
    [status |-> IF r.ok THEN 201 ELSE 400, rows |-> IF r.ok THEN r.users ELSE us]

\* the request bodies of the create routes
RegisterInputsCrud ==
    {[username |-> n, email |-> e, password |-> "carolpw12", confirm_password |-> "carolpw12"] :
        n \in {"admin", "carol"}, e \in {"admin@example.com", "carol@x.io"}}

DepartmentInputs ==
    {[name |-> nc[1], code |-> nc[2], parent_id |-> parent] :
        nc \in {<<"Research", "RD">>, <<"People", "HR">>}, parent \in {NullId, 1}}

\* status and is_active are no fields of EmployeeCreate: a body that carries
\* them is accepted and create_employee never reads them
EmployeeInputs ==
    {[employee_no |-> no, user_id |-> uid, id_card |-> NullCard, department_id |-> d,
      status |-> x[1], is_active |-> x[2]] :
        no \in {"EMP001", "EMP002"}, uid \in {1, 2, MaxUserId + 1}, d \in {NullId, 1},
        x \in {<<"probation", TRUE>>, <<"resigned", FALSE>>}}

RoleInputs ==
    {[name |-> "Administrator", code |-> "admin"],
     [name |-> "Administrator", code |-> "ops"],
     [name |-> "Operator", code |-> "ops"]}

\* the database after `python seed.py seed`, with the superuser and
\* testuser1 logged in
CrudInit ==
    /\ CoordIdle
    /\ users = seed_database(<< >>, 0).users
    /\ id_seq = seed_database(<< >>, 0).seq
    /\ tokens = TokenPair(users, 1, 0) \cup TokenPair(users, 2, 0)
    /\ now = 0
    /\ resp = [route |-> "none", status |-> 0]
    /\ jwt_has_JWTError \in BOOLEAN
    /\ rt = "None"
    /\ OrgEmpty
    /\ FlightIdle

CrudFrame ==
    UNCHANGED <<coordVars, tokens, now, jwt_has_JWTError, rt, permissions, system_logs,
                flightVars>>

\* the bearer tokens a caller may present
Bearers == {token \in tokens : token.payload["type"] = "access"}

\* POST /register
RegisterCrud ==
    /\ id_seq < MaxUserId
    /\ \E u \in RegisterInputsCrud :
          LET r == register(users, id_seq, u) IN
          /\ users' = r.rows
          /\ id_seq' = IF r.status = 201 THEN id_seq + 1 ELSE id_seq
          /\ resp' = [route |-> "register", status |-> r.status]
    /\ UNCHANGED orgVars
    /\ CrudFrame

\* POST /departments/
CreateDepartment ==
    /\ \E token \in Bearers, d \in DepartmentInputs :
          LET c == get_current_superuser(users, token, now, jwt_has_JWTError)
              r == create_department(departments, table_seq.departments, d)
          IN  IF ~c.ok
              THEN /\ resp' = [route |-> "departments", status |-> c.status]
                   /\ UNCHANGED <<departments, table_seq>>
              ELSE /\ resp' = [route |-> "departments", status |-> CreateStatus(r)]
                   /\ departments' = RowsAfter(r, departments)
                   /\ table_seq' = [table_seq EXCEPT !.departments = SeqAfter(r, @)]
    /\ UNCHANGED <<users, id_seq, employees, roles>>
    /\ CrudFrame

\* POST /employees/
CreateEmployee ==
    /\ \E token \in Bearers, e \in EmployeeInputs :
          LET c == get_current_superuser(users, token, now, jwt_has_JWTError)
              r == create_employee(employees, users, departments, table_seq.employees, e)
          IN  IF ~c.ok
              THEN /\ resp' = [route |-> "employees", status |-> c.status]
                   /\ UNCHANGED <<employees, table_seq>>
              ELSE /\ resp' = [route |-> "employees", status |-> CreateStatus(r)]
                   /\ employees' = RowsAfter(r, employees)
                   /\ table_seq' = [table_seq EXCEPT !.employees = SeqAfter(r, @)]
    /\ UNCHANGED <<users, id_seq, departments, roles>>
    /\ CrudFrame

\* POST /roles/
CreateRole ==
    /\ \E token \in Bearers, ro \in RoleInputs :
          LET c == get_current_superuser(users, token, now, jwt_has_JWTError)
              r == create_role(roles, table_seq.roles, ro)
          IN  IF ~c.ok
              THEN /\ resp' = [route |-> "roles", status |-> c.status]
                   /\ UNCHANGED <<roles, table_seq>>
              ELSE /\ resp' = [route |-> "roles", status |-> CreateStatus(r)]
                   /\ roles' = RowsAfter(r, roles)
                   /\ table_seq' = [table_seq EXCEPT !.roles = SeqAfter(r, @)]
    /\ UNCHANGED <<users, id_seq, departments, employees>>
    /\ CrudFrame

CrudNext == RegisterCrud \/ CreateDepartment \/ CreateEmployee \/ CreateRole

SpecCrud == CrudInit /\ [][CrudNext]_vars

\* no two rows of a table agree on the field
UniqueOn(rows, field) ==
    \A i, j \in DOMAIN rows : i # j => rows[i][field] # rows[j][field]

SuperuserBearers ==
    {token \in Bearers :
        get_current_superuser(users, token, now, jwt_has_JWTError).ok}

\* C10: no two users share a username or an email, no two departments a
\* code, no two employees an employee number, no two roles a code; and a
\* create whose username, email, code or employee number is already stored
\* answers 400 and leaves the rows as they are
C10_UniquenessUnderSequentialCreates ==
    /\ UniqueOn(users, "username") /\ UniqueOn(users, "email")
    /\ UniqueOn(departments, "code")
    /\ UniqueOn(employees, "employee_no")
    /\ UniqueOn(roles, "code")
    /\ \A u \in RegisterInputsCrud :
          (UsernameTaken(users, u.username) \/ EmailTaken(users, u.email)) =>
             register(users, id_seq, u) = [status |-> 400, rows |-> users]
    /\ SuperuserBearers # {} =>
          /\ \A d \in DepartmentInputs :
                (\E i \in DOMAIN departments : departments[i].code = d.code) =>
                   LET r == create_department(departments, table_seq.departments, d) IN
                   CreateStatus(r) = 400 /\ RowsAfter(r, departments) = departments
          /\ \A e \in EmployeeInputs :
                (\E i \in DOMAIN employees : employees[i].employee_no = e.employee_no) =>
                   LET r == create_employee(employees, users, departments,
                                            table_seq.employees, e) IN
                   CreateStatus(r) = 400 /\ RowsAfter(r, employees) = employees
          /\ \A ro \in RoleInputs :
                (\E i \in DOMAIN roles : roles[i].code = ro.code) =>
                   LET r == create_role(roles, table_seq.roles, ro) IN
                   CreateStatus(r) = 400 /\ RowsAfter(r, roles) = roles

\* every table holds two rows and the last create was refused with 400
Witness_C10 ==
    /\ resp.status = 400
    /\ resp.route \in {"register", "departments", "employees", "roles"}
    /\ Cardinality(DOMAIN users) > 4
    /\ Cardinality(DOMAIN departments) = 2
    /\ Cardinality(DOMAIN employees) = 2
    /\ Cardinality(DOMAIN roles) = 2

----------------------------------------------------------------------------
(* Two POST /register requests served at the same time *)

\* the two requests name the same user; each has its own database session
RaceRequests == {1, 2}

RaceBodies ==
    {[username |-> "alice", email |-> e, password |-> pw, confirm_password |-> pw] :
        e \in {"alice@x.io", "alice@y.io"}, pw \in {"alicepw1", "alicepw2"}}

RaceInit ==
    /\ CoordIdle
    /\ users = << >>
    /\ id_seq = 0
    /\ tokens = {}
    /\ now = 0
    /\ resp = [route |-> "none", status |-> 0]
    /\ jwt_has_JWTError \in BOOLEAN
    /\ rt = "None"
    /\ OrgEmpty
    /\ pg = "None"
    /\ reqs \in [RaceRequests -> {[pc |-> "received", body |-> b, status |-> 0] :
                                    b \in RaceBodies}]

RaceFrame == UNCHANGED <<coordVars, tokens, now, jwt_has_JWTError, rt, orgVars, pg>>

\* the request ends with this status
Answer(r, status) ==
    /\ reqs' = [reqs EXCEPT ![r].pc = "done", ![r].status = status]
    /\ resp' = [route |-> "register", status |-> status]

\* create_user up to get_user_by_username: the password comparison and the
\* first SELECT; the ValueError becomes 400
RegCheckUsername(r) ==
    /\ reqs[r].pc = "received"
    /\ IF reqs[r].body.password # reqs[r].body.confirm_password
          \/ UsernameTaken(users, reqs[r].body.username)
       THEN Answer(r, 400)
       ELSE reqs' = [reqs EXCEPT ![r].pc = "username_free"] /\ UNCHANGED resp
    /\ UNCHANGED <<users, id_seq>>
    /\ RaceFrame

\* create_user at get_user_by_email: the second SELECT
RegCheckEmail(r) ==
    /\ reqs[r].pc = "username_free"
    /\ IF EmailTaken(users, reqs[r].body.email)
       THEN Answer(r, 400)
       ELSE reqs' = [reqs EXCEPT ![r].pc = "email_free"] /\ UNCHANGED resp
    /\ UNCHANGED <<users, id_seq>>
    /\ RaceFrame

\* create_user at db.add / db.commit: the unique constraints of the table
\* decide; register answers 500 to the IntegrityError (except Exception)
RegInsert(r) ==
    /\ reqs[r].pc = "email_free"
    /\ id_seq < MaxUserId
    /\ LET b == reqs[r].body
           row == UserRow(b.username, b.email, b.password, FALSE)
       IN  IF UserConflict(users, row)
           THEN /\ Answer(r, 500)
                /\ UNCHANGED <<users, id_seq>>
           ELSE /\ Answer(r, 201)
                /\ users' = InsertUser(users, id_seq, row)
                /\ id_seq' = id_seq + 1
    /\ RaceFrame

RegCheckUsernameStep == \E r \in RaceRequests : RegCheckUsername(r)

RegCheckEmailStep == \E r \in RaceRequests : RegCheckEmail(r)

RegInsertStep == \E r \in RaceRequests : RegInsert(r)

RaceNext == RegCheckUsernameStep \/ RegCheckEmailStep \/ RegInsertStep

SpecRace == RaceInit /\ [][RaceNext]_vars

\* C11: when two POST /register requests with the same username have both
\* been answered, whatever their interleaving, exactly one user row has that
\* username, one request was answered 201 and the other one 400
C11_ConcurrentDuplicateRegistration ==
    (\A r \in RaceRequests : reqs[r].pc = "done") =>
        /\ Cardinality({i \in DOMAIN users : users[i].username = "alice"}) = 1
        /\ \E r \in RaceRequests :
              /\ reqs[r].status = 201
              /\ \A q \in RaceRequests \ {r} : reqs[q].status = 400

----------------------------------------------------------------------------
(* Backend: update and delete of departments and employees *)

\* DepartmentCRUD.update_department(db, dept_id, department_update);
\* upd holds the fields the request has set (model_dump(exclude_unset=True))
update_department(deps, dept_id, upd) ==
    IF dept_id \notin DOMAIN deps THEN [ok |-> FALSE, error |-> "NotFound"]
    ELSE LET old == deps[dept_id]
             name == IF "name" \in DOMAIN upd THEN upd["name"] ELSE old.name
             is_active == IF "is_active" \in DOMAIN upd THEN upd["is_active"]
                          ELSE old.is_active
         IN  IF "parent_id" \notin DOMAIN upd
             THEN [ok |-> TRUE,
                   rows |-> [deps EXCEPT ![dept_id].name = name,
                                         ![dept_id].is_active = is_active]]
             ELSE IF upd["parent_id"] = NullId
             THEN [ok |-> TRUE,
                   rows |-> [deps EXCEPT ![dept_id].name = name,
                                         ![dept_id].is_active = is_active,
                                         ![dept_id].parent_id = NullId,
                                         ![dept_id].level = 1,
                                         ![dept_id].path = <<name>>]]
             ELSE IF upd["parent_id"] \notin DOMAIN deps
             THEN [ok |-> FALSE, error |-> "ValueError"]
             ELSE [ok |-> TRUE,
                   rows |-> [deps EXCEPT ![dept_id].name = name,
                                         ![dept_id].is_active = is_active,
                                         ![dept_id].parent_id = upd["parent_id"],
                                         ![dept_id].level = deps[upd["parent_id"]].level + 1,
                                         ![dept_id].path =
                                             Append(deps[upd["parent_id"]].path, name)]]

\* the rows delete_department counts: Department.parent_id == dept_id
ChildrenOf(deps, dept_id) == {i \in DOMAIN deps : deps[i].parent_id = dept_id}

\* DepartmentCRUD.delete_department(db, dept_id)
delete_department(deps, dept_id) ==
    IF dept_id \notin DOMAIN deps THEN [ok |-> FALSE, error |-> "NotFound"]
    ELSE IF Cardinality(ChildrenOf(deps, dept_id)) > 0
    THEN [ok |-> FALSE, error |-> "ValueError"]
    ELSE [ok |-> TRUE, rows |-> [deps EXCEPT ![dept_id].is_active = FALSE]]

\* EmployeeCRUD.update_employee(db, employee_id, employee_update)
update_employee(emps, deps, employee_id, upd) ==
    IF employee_id \notin DOMAIN emps THEN [ok |-> FALSE, error |-> "NotFound"]
    ELSE IF /\ "department_id" \in DOMAIN upd
            /\ upd["department_id"] # NullId
            /\ upd["department_id"] \notin DOMAIN deps
    THEN [ok |-> FALSE, error |-> "ValueError"]
    ELSE [ok |-> TRUE,
          rows |-> [emps EXCEPT ![employee_id] =
                       [f \in DOMAIN @ |-> IF f \in DOMAIN upd THEN upd[f] ELSE @[f]]]]

\* EmployeeCRUD.delete_employee(db, employee_id)
delete_employee(emps, employee_id) ==
    IF employee_id \notin DOMAIN emps THEN [ok |-> FALSE, error |-> "NotFound"]
    ELSE [ok |-> TRUE,
          rows |-> [emps EXCEPT ![employee_id].is_active = FALSE,
                                ![employee_id].status = "inactive"]]

\* the status of PUT/DELETE /departments/{id} and PUT /employees/{id} for the
\* outcome of the CRUD call: the route raises HTTPException(404) for a
\* missing row inside its try block, where `except Exception` replaces it
MutateStatus(r) ==
    IF r.ok THEN 200
    ELSE IF r.error = "ValueError" THEN 400
    ELSE 500

\* the status of DELETE /employees/{id}: its try block has `except Exception` only
DeleteEmployeeStatus(r) == IF r.ok THEN 200 ELSE 500

----------------------------------------------------------------------------
(* The department tree under create, update and delete *)

TreeCreateInputs ==
    {[name |-> nc[1], code |-> nc[2], parent_id |-> parent] :
        nc \in {<<"Research", "RD">>, <<"People", "HR">>}, parent \in {NullId, 1}}

\* the ids the requests name: the rows, and one id without row
TreeIds == 1..3

\* the bodies of PUT /departments/{id}: the fields that are set
TreeUpdateInputs ==
    {[f \in {"name"} |-> "Renamed"]}
       \cup {[f \in {"parent_id"} |-> parent] : parent \in TreeIds \cup {NullId}}

\* the bound on the nesting depth
WithinLevels(rows) ==
    \A i \in DOMAIN rows : rows[i].level <= MaxLevel /\ Len(rows[i].path) <= MaxLevel

TreeFrame ==
    UNCHANGED <<coordVars, users, id_seq, tokens, now, jwt_has_JWTError, rt,
                employees, roles, permissions, system_logs, flightVars>>

\* POST /departments/
TreeCreate ==
    /\ \E token \in Bearers, d \in TreeCreateInputs :
          LET c == get_current_superuser(users, token, now, jwt_has_JWTError)
              r == create_department(departments, table_seq.departments, d)
          IN  /\ WithinLevels(RowsAfter(r, departments))
              /\ IF ~c.ok
                 THEN /\ resp' = [route |-> "departments", status |-> c.status]
                      /\ UNCHANGED <<departments, table_seq>>
                 ELSE /\ resp' = [route |-> "departments", status |-> CreateStatus(r)]
                      /\ departments' = RowsAfter(r, departments)
                      /\ table_seq' = [table_seq EXCEPT !.departments = SeqAfter(r, @)]
    /\ TreeFrame

\* PUT /departments/{department_id}
TreeUpdate ==
    /\ \E token \in Bearers, dept_id \in TreeIds, upd \in TreeUpdateInputs :
          LET c == get_current_superuser(users, token, now, jwt_has_JWTError)
              r == update_department(departments, dept_id, upd)
          IN  /\ WithinLevels(RowsAfter(r, departments))
              /\ IF ~c.ok
                 THEN /\ resp' = [route |-> "departments/id", status |-> c.status]
                      /\ UNCHANGED departments
                 ELSE /\ resp' = [route |-> "departments/id", status |-> MutateStatus(r)]
                      /\ departments' = RowsAfter(r, departments)
    /\ UNCHANGED table_seq
    /\ TreeFrame

\* DELETE /departments/{department_id}
TreeDelete ==
    /\ \E token \in Bearers, dept_id \in TreeIds :
          LET c == get_current_superuser(users, token, now, jwt_has_JWTError)
              r == delete_department(departments, dept_id)
          IN  IF ~c.ok
              THEN /\ resp' = [route |-> "departments/id", status |-> c.status]
                   /\ UNCHANGED departments
              ELSE /\ resp' = [route |-> "departments/id", status |-> MutateStatus(r)]
                   /\ departments' = RowsAfter(r, departments)
    /\ UNCHANGED table_seq
    /\ TreeFrame

TreeNext == TreeCreate \/ TreeUpdate \/ TreeDelete

SpecTree == CrudInit /\ [][TreeNext]_vars

\* C13: every department without parent has level 1 and its name as path;
\* every other department has a parent row, the parent's level plus one, and
\* the parent's path followed by its own name
C13_LevelPathConsistency ==
    \A d \in DOMAIN departments :
       IF departments[d].parent_id = NullId
       THEN /\ departments[d].level = 1
            /\ departments[d].path = <<departments[d].name>>
       ELSE /\ departments[d].parent_id \in DOMAIN departments
            /\ departments[d].level = departments[departments[d].parent_id].level + 1
            /\ departments[d].path =
                  Append(departments[departments[d].parent_id].path, departments[d].name)

\* the children of dept_id that are not soft-deleted
ActiveChildrenOf(deps, dept_id) ==
    {i \in ChildrenOf(deps, dept_id) : deps[i].is_active}

\* C14: DELETE on an existing department answers 400 and changes nothing
\* exactly when the department has a child with is_active = true; otherwise
\* it succeeds and only sets the department's is_active to false
C14_SoftDeleteGuard ==
    \A d \in DOMAIN departments :
       LET r == delete_department(departments, d) IN
       IF ActiveChildrenOf(departments, d) # {}
       THEN MutateStatus(r) = 400 /\ RowsAfter(r, departments) = departments
       ELSE /\ MutateStatus(r) = 200
            /\ RowsAfter(r, departments) = [departments EXCEPT ![d].is_active = FALSE]

RECURSIVE ReachedByParentLinks(_, _, _, _)
\* whether following parent_id from cur, at most n times, arrives at target
ReachedByParentLinks(deps, cur, target, n) ==
    IF n = 0 \/ cur \notin DOMAIN deps \/ deps[cur].parent_id = NullId THEN FALSE
    ELSE \/ deps[cur].parent_id = target
         \/ ReachedByParentLinks(deps, deps[cur].parent_id, target, n - 1)

\* C15: following parent_id links from a department never returns to it
C15_TreeAcyclic ==
    \A d \in DOMAIN departments :
       ~ReachedByParentLinks(departments, d, d, Cardinality(DOMAIN departments))

----------------------------------------------------------------------------
(* Backend: the administrative routes *)

\* the tables the administrative routes read and write
Db ==
    [users |-> users, departments |-> departments, employees |-> employees,
     roles |-> roles, permissions |-> permissions, system_logs |-> system_logs,
     table_seq |-> table_seq]

\* the answer of a route whose dependency raised: nothing was written
Denied(db, c) == [status |-> c.status, db |-> db]

\* POST /departments/
create_department_route(db, token, t, has_JWTError, d) ==
    LET c == get_current_superuser(db.users, token, t, has_JWTError)
        r == create_department(db.departments, db.table_seq.departments, d)
    IN  IF ~c.ok THEN Denied(db, c)
        ELSE [status |-> CreateStatus(r),
              db |-> [db EXCEPT !.departments = RowsAfter(r, @),
                                !.table_seq.departments = SeqAfter(r, @)]]

\* PUT /departments/{department_id}
update_department_route(db, token, t, has_JWTError, department_id, upd) ==
    LET c == get_current_superuser(db.users, token, t, has_JWTError)
        r == update_department(db.departments, department_id, upd)
    IN  IF ~c.ok THEN Denied(db, c)
        ELSE [status |-> MutateStatus(r),
              db |-> [db EXCEPT !.departments = RowsAfter(r, @)]]

\* DELETE /departments/{department_id}
delete_department_route(db, token, t, has_JWTError, department_id) ==
    LET c == get_current_superuser(db.users, token, t, has_JWTError)
        r == delete_department(db.departments, department_id)
    IN  IF ~c.ok THEN Denied(db, c)
        ELSE [status |-> MutateStatus(r),
              db |-> [db EXCEPT !.departments = RowsAfter(r, @)]]

\* POST /employees/
create_employee_route(db, token, t, has_JWTError, e) ==
    LET c == get_current_superuser(db.users, token, t, has_JWTError)
        r == create_employee(db.employees, db.users, db.departments,
                             db.table_seq.employees, e)
    IN  IF ~c.ok THEN Denied(db, c)
        ELSE [status |-> CreateStatus(r),
              db |-> [db EXCEPT !.employees = RowsAfter(r, @),
                                !.table_seq.employees = SeqAfter(r, @)]]

\* PUT /employees/{employee_id}
update_employee_route(db, token, t, has_JWTError, employee_id, upd) ==
    LET c == get_current_superuser(db.users, token, t, has_JWTError)
        r == update_employee(db.employees, db.departments, employee_id, upd)
    IN  IF ~c.ok THEN Denied(db, c)
        ELSE [status |-> MutateStatus(r),
              db |-> [db EXCEPT !.employees = RowsAfter(r, @)]]

\* DELETE /employees/{employee_id}
delete_employee_route(db, token, t, has_JWTError, employee_id) ==
    LET c == get_current_superuser(db.users, token, t, has_JWTError)
        r == delete_employee(db.employees, employee_id)
    IN  IF ~c.ok THEN Denied(db, c)
        ELSE [status |-> DeleteEmployeeStatus(r),
              db |-> [db EXCEPT !.employees = RowsAfter(r, @)]]

\* POST /roles/
create_role_route(db, token, t, has_JWTError, role) ==
    LET c == get_current_superuser(db.users, token, t, has_JWTError)
        r == create_role(db.roles, db.table_seq.roles, role)
    IN  IF ~c.ok THEN Denied(db, c)
        ELSE [status |-> CreateStatus(r),
              db |-> [db EXCEPT !.roles = RowsAfter(r, @),
                                !.table_seq.roles = SeqAfter(r, @)]]

\* PermissionCRUD.create_permission: no check before the insert, so a code
\* that is taken fails at the commit
create_permission(ps, seq, permission) ==
    IF CodeTaken(ps, permission.code) THEN [ok |-> FALSE, error |-> "IntegrityError"]
    ELSE [ok |-> TRUE,
          rows |-> InsertRow(ps, seq, [name |-> permission.name, code |-> permission.code,
                                       is_active |-> TRUE])]

\* POST /roles/permissions
create_permission_route(db, token, t, has_JWTError, permission) ==
    LET c == get_current_superuser(db.users, token, t, has_JWTError)
        r == create_permission(db.permissions, db.table_seq.permissions, permission)
    IN  IF ~c.ok THEN Denied(db, c)
        ELSE [status |-> CreateStatus(r),
              db |-> [db EXCEPT !.permissions = RowsAfter(r, @),
                                !.table_seq.permissions = SeqAfter(r, @)]]

\* SystemLogCRUD.create_log at time t (created_at has server_default now())
create_log(logs, seq, log, t) ==
    [ok |-> TRUE,
     rows |-> InsertRow(logs, seq, [action |-> log.action, user_id |-> log.user_id,
                                    created_at |-> t])]

\* POST /system-logs/
create_system_log_route(db, token, t, has_JWTError, log) ==
    LET c == get_current_superuser(db.users, token, t, has_JWTError)
        r == create_log(db.system_logs, db.table_seq.system_logs, log, t)
    IN  IF ~c.ok THEN Denied(db, c)
        ELSE [status |-> CreateStatus(r),
              db |-> [db EXCEPT !.system_logs = RowsAfter(r, @),
                                !.table_seq.system_logs = SeqAfter(r, @)]]

\* SystemLogCRUD.delete_old_logs(db, days) at time t: the rows that stay
delete_old_logs(logs, days, t) ==
    LET keep == {i \in DOMAIN logs : ~(logs[i].created_at < t - days * MinutesPerDay)}
    IN  [i \in keep |-> logs[i]]

\* DELETE /system-logs/cleanup?days=
cleanup_old_logs_route(db, token, t, has_JWTError, days) ==
    LET c == get_current_superuser(db.users, token, t, has_JWTError) IN
    IF ~c.ok THEN Denied(db, c)
    ELSE [status |-> 200,
          db |-> [db EXCEPT !.system_logs = delete_old_logs(@, days, t)]]

\* GET /users/{user_id}
get_user_by_id_route(db, token, t, has_JWTError, user_id) ==
    LET c == get_current_superuser(db.users, token, t, has_JWTError) IN
    IF ~c.ok THEN Denied(db, c)
    ELSE [status |-> IF user_id \in DOMAIN db.users THEN 200 ELSE 404, db |-> db]

\* POST /users/{user_id}/activate
activate_user_route(db, token, t, has_JWTError, user_id) ==
    LET c == get_current_superuser(db.users, token, t, has_JWTError) IN
    IF ~c.ok THEN Denied(db, c)
    ELSE IF user_id \notin DOMAIN db.users THEN [status |-> 404, db |-> db]
    ELSE [status |-> 200, db |-> [db EXCEPT !.users[user_id].is_active = TRUE]]

\* variant of deactivate_user_route that depends on get_current_active_user
deactivate_user_route_ActiveUser(db, token, t, has_JWTError, user_id) ==
    LET c == get_current_active_user(db.users, token, t, has_JWTError) IN
    IF ~c.ok THEN Denied(db, c)
    ELSE IF user_id \notin DOMAIN db.users THEN [status |-> 404, db |-> db]
    ELSE [status |-> 200, db |-> [db EXCEPT !.users[user_id].is_active = FALSE]]

\* POST /users/{user_id}/deactivate
deactivate_user_route(db, token, t, has_JWTError, user_id) ==
    LET c == get_current_superuser(db.users, token, t, has_JWTError) IN
    IF ~c.ok THEN Denied(db, c)
    ELSE IF user_id \notin DOMAIN db.users THEN [status |-> 404, db |-> db]
    ELSE [status |-> 200, db |-> [db EXCEPT !.users[user_id].is_active = FALSE]]

----------------------------------------------------------------------------
(* The administrative routes called by superusers and by other users *)

\* the ids the requests name: a row that can exist, and an id without row
AdminIds == 1..2

AdminRouteNames ==
    {"create_department", "update_department", "delete_department",
     "create_employee", "update_employee", "delete_employee",
     "create_role", "create_permission", "create_system_log", "cleanup_old_logs",
     "get_user_by_id", "activate_user", "deactivate_user"}

\* the path and query parameters and the bodies of the requests, by route
AdminArgs(route) ==
    CASE route = "create_department" ->
            {[id |-> NullId, body |-> [name |-> "Research", code |-> "RD",
                                       parent_id |-> NullId]]}
      [] route = "update_department" ->
            {[id |-> i, body |-> upd] :
                i \in AdminIds,
                upd \in {[f \in {"name"} |-> "Renamed"]}}
      [] route = "create_employee" ->
            {[id |-> NullId, body |-> [employee_no |-> "EMP001", user_id |-> 2,
                                       id_card |-> NullCard, department_id |-> NullId]]}
      [] route = "update_employee" ->
            {[id |-> i, body |-> upd] :
                i \in AdminIds,
                upd \in {[f \in {"status"} |-> "active"]}}
      [] route \in {"delete_department", "delete_employee"} ->
            {[id |-> i, body |-> << >>] : i \in AdminIds}
      [] route = "create_role" ->
            {[id |-> NullId, body |-> [name |-> "Operator", code |-> "ops"]]}
      [] route = "create_permission" ->
            {[id |-> NullId, body |-> [name |-> "View users", code |-> "user:profile:view"]]}
      [] route = "create_system_log" ->
            {[id |-> NullId, body |-> [action |-> "manual", user_id |-> NullId]]}
      [] route = "cleanup_old_logs" ->
            {[id |-> days, body |-> << >>] : days \in {1, 3}}
      [] route \in {"get_user_by_id", "activate_user", "deactivate_user"} ->
            {[id |-> i, body |-> << >>] : i \in {1, 2, MaxUserId + 1}}

\* the route function the request is dispatched to
AdminRoute(db, route, a, token, t, has_JWTError) ==
    CASE route = "create_department" ->
            create_department_route(db, token, t, has_JWTError, a.body)
      [] route = "update_department" ->
            update_department_route(db, token, t, has_JWTError, a.id, a.body)
      [] route = "delete_department" ->
            delete_department_route(db, token, t, has_JWTError, a.id)
      [] route = "create_employee" ->
            create_employee_route(db, token, t, has_JWTError, a.body)
      [] route = "update_employee" ->
            update_employee_route(db, token, t, has_JWTError, a.id, a.body)
      [] route = "delete_employee" ->
            delete_employee_route(db, token, t, has_JWTError, a.id)
      [] route = "create_role" ->
            create_role_route(db, token, t, has_JWTError, a.body)
      [] route = "create_permission" ->
            create_permission_route(db, token, t, has_JWTError, a.body)
      [] route = "create_system_log" ->
            create_system_log_route(db, token, t, has_JWTError, a.body)
      [] route = "cleanup_old_logs" ->
            cleanup_old_logs_route(db, token, t, has_JWTError, a.id)
      [] route = "get_user_by_id" ->
            get_user_by_id_route(db, token, t, has_JWTError, a.id)
      [] route = "activate_user" ->
            activate_user_route(db, token, t, has_JWTError, a.id)
      [] route = "deactivate_user" ->
            deactivate_user_route(db, token, t, has_JWTError, a.id)

\* the database two days after `python seed.py seed`, holding one log row of
\* the first day, with the superuser and testuser1 just logged in; `import jwt`
\* is PyJWT, which has no JWTError
AdminInit ==
    /\ CoordIdle
    /\ users = seed_database(<< >>, 0).users
    /\ id_seq = seed_database(<< >>, 0).seq
    /\ now = 2 * MinutesPerDay
    /\ tokens = TokenPair(users, 1, now) \cup TokenPair(users, 2, now)
    /\ resp = [route |-> "none", status |-> 0]
    /\ jwt_has_JWTError = FALSE
    /\ rt = "None"
    /\ departments = << >>
    /\ employees = << >>
    /\ roles = << >>
    /\ permissions = << >>
    /\ system_logs = <<[action |-> "login", user_id |-> 1, created_at |-> 0]>>
    /\ table_seq = [departments |-> 0, employees |-> 0, roles |-> 0,
                    permissions |-> 0, system_logs |-> 1]
    /\ FlightIdle

\* the router of main.py that holds the route
RouterOf(route) ==
    CASE route \in {"create_department", "update_department", "delete_department"} ->
            "departments"
      [] route \in {"create_employee", "update_employee", "delete_employee"} -> "employees"
      [] route \in {"create_role", "create_permission"} -> "roles"
      [] route \in {"create_system_log", "cleanup_old_logs"} -> "system-logs"
      [] route \in {"get_user_by_id", "activate_user", "deactivate_user"} -> "users"

\* one request to an administrative route
AdminStep(route) ==
    /\ \E token \in Bearers, a \in AdminArgs(route) :
       \E r \in {AdminRoute(Db, route, a, token, now, jwt_has_JWTError)} :
          /\ r.db.table_seq.system_logs <= MaxLogs
          /\ resp' = [route |-> RouterOf(route), status |-> r.status]
          /\ users' = r.db.users
          /\ departments' = r.db.departments
          /\ employees' = r.db.employees
          /\ roles' = r.db.roles
          /\ permissions' = r.db.permissions
          /\ system_logs' = r.db.system_logs
          /\ table_seq' = r.db.table_seq
    /\ UNCHANGED <<coordVars, id_seq, tokens, now, jwt_has_JWTError, rt, flightVars>>

AdminCreateDepartment == AdminStep("create_department")
AdminUpdateDepartment == AdminStep("update_department")
AdminDeleteDepartment == AdminStep("delete_department")
AdminCreateEmployee == AdminStep("create_employee")
AdminUpdateEmployee == AdminStep("update_employee")
AdminDeleteEmployee == AdminStep("delete_employee")
AdminCreateRole == AdminStep("create_role")
AdminCreatePermission == AdminStep("create_permission")
AdminCreateSystemLog == AdminStep("create_system_log")
AdminCleanupOldLogs == AdminStep("cleanup_old_logs")
AdminGetUserById == AdminStep("get_user_by_id")
AdminActivateUser == AdminStep("activate_user")
AdminDeactivateUser == AdminStep("deactivate_user")

AdminNext ==
    \/ AdminCreateDepartment \/ AdminUpdateDepartment \/ AdminDeleteDepartment
    \/ AdminCreateEmployee \/ AdminUpdateEmployee \/ AdminDeleteEmployee
    \/ AdminCreateRole \/ AdminCreatePermission
    \/ AdminCreateSystemLog \/ AdminCleanupOldLogs
    \/ AdminGetUserById \/ AdminActivateUser \/ AdminDeactivateUser

SpecAdmin == AdminInit /\ [][AdminNext]_vars

\* the token is a valid access token of an existing active user
Authenticated(token) ==
    /\ token.sig = SECRET_KEY
    /\ token.payload["type"] = "access"
    /\ Unexpired(token)
    /\ ~NamesLockedOutUser(token)

\* the token is a valid access token of an existing active superuser
ByActiveSuperuser(token) ==
    Authenticated(token) /\ users[token.payload["user_id"]].is_superuser

\* C12: a request to an administrative route changes the tables or is
\* answered with success only if it carries the access token of an existing
\* active superuser; a request of any other authenticated user is answered
\* 403, and every refused request leaves all tables as they were
C12_SuperuserGating ==
    \A token \in tokens \cup {BadToken}, route \in AdminRouteNames :
       \A a \in AdminArgs(route) :
          \A r \in {AdminRoute(Db, route, a, token, now, jwt_has_JWTError)} :
             /\ ~ByActiveSuperuser(token) => r.status \in {401, 403} /\ r.db = Db
             /\ Authenticated(token) /\ ~ByActiveSuperuser(token) => r.status = 403
             /\ r.db # Db \/ r.status \in {200, 201} => ByActiveSuperuser(token)

\* the users router has just answered 403 while an authenticated user who is
\* no superuser holds a token, and the tables hold rows a superuser created
Witness_C12 ==
    /\ resp = [route |-> "users", status |-> 403]
    /\ \E token \in tokens : Authenticated(token) /\ ~ByActiveSuperuser(token)
    /\ departments # << >>
    /\ employees # << >>
    /\ roles # << >>
    /\ permissions # << >>

\* the tables of the routes with an {id} path parameter
TableOf(route) ==
    IF route \in {"update_department", "delete_department"} THEN departments
    ELSE employees

\* C16: PUT and DELETE on /departments/{id} and /employees/{id}, called by a
\* superuser with an id that has no row, answer 404 and change no table
C16_MissingIdAnswers404 ==
    \A token \in tokens :
       ByActiveSuperuser(token) =>
          \A route \in {"update_department", "delete_department",
                        "update_employee", "delete_employee"} :
             \A a \in AdminArgs(route) :
                a.id \notin DOMAIN TableOf(route) =>
                   \A r \in {AdminRoute(Db, route, a, token, now, jwt_has_JWTError)} :
                      r.status = 404 /\ r.db = Db

----------------------------------------------------------------------------
(* Claims about the creation of employees *)

\* the new row of a successful create: the one id the table did not have
NewRows(before, after) == {after[i] : i \in DOMAIN after \ DOMAIN before}

\* one of the four refusals of create_employee applies to the request
EmployeeRefused(e) ==
    \/ EmployeeNoTaken(employees, e.employee_no)
    \/ \E i \in DOMAIN employees : employees[i].user_id = e.user_id
    \/ e.user_id \notin DOMAIN users
    \/ e.department_id # NullId /\ e.department_id \notin DOMAIN departments

\* C17: a successful create_employee adds exactly one row, with status
\* probation and is_active true whatever status and is_active the request
\* carries, and leaves the other rows alone; create_employee adds no row when
\* the employee number is taken, the user has a profile, or the user or the
\* department does not exist
C17_EmployeeInitialStatus ==
    \A e \in EmployeeInputs :
       \A r \in {create_employee(employees, users, departments, table_seq.employees, e)} :
          /\ r.ok =>
                /\ \A i \in DOMAIN employees : r.rows[i] = employees[i]
                /\ Cardinality(DOMAIN r.rows) = Cardinality(DOMAIN employees) + 1
                /\ \A row \in NewRows(employees, r.rows) :
                      /\ row.status = "probation" /\ row.is_active
                      /\ row.employee_no = e.employee_no /\ row.user_id = e.user_id
          /\ EmployeeRefused(e) => ~r.ok /\ RowsAfter(r, employees) = employees

\* an employee was just created, one more request for the same user would be
\* refused, and a request carrying status resigned would succeed
Witness_C17 ==
    /\ resp = [route |-> "employees", status |-> 201]
    /\ \E i \in DOMAIN employees :
          employees[i].status = "probation" /\ employees[i].is_active
    /\ \E e \in EmployeeInputs : EmployeeRefused(e)
    /\ \E e \in EmployeeInputs :
          /\ e.status = "resigned" /\ ~e.is_active
          /\ create_employee(employees, users, departments, table_seq.employees, e).ok

----------------------------------------------------------------------------
(* Claims about logout *)

\* the unexpired refresh tokens issued to the user of an access token
MatchingRefreshTokens(token) ==
    {r \in tokens : /\ r.payload["type"] = "refresh"
                    /\ r.payload["user_id"] = token.payload["user_id"]
                    /\ Unexpired(r)}

\* C18: POST /logout leaves the users table as it is, and after a logout the
\* access token it carried is still accepted and each unexpired refresh token
\* of the same user is still exchanged; at any time, whatever logouts there
\* were, an issued access token is accepted exactly while it is unexpired and
\* its user exists and is active
C18_StatelessLogout ==
    /\ \A token \in tokens \cup {BadToken} :
          \A r \in {logout(users, token, now, jwt_has_JWTError)} :
             /\ r.users = users
             /\ r.status = 200 =>
                   /\ get_current_user(r.users, token, now, jwt_has_JWTError).ok
                   /\ \A rf \in MatchingRefreshTokens(token) :
                         refresh_token(r.users, rf, now, jwt_has_JWTError).status = 200
    /\ \A token \in tokens :
          token.payload["type"] = "access" =>
             (get_current_user(users, token, now, jwt_has_JWTError).ok
                <=> Unexpired(token) /\ ~NamesLockedOutUser(token))

\* a logout was just answered 200 while an access token and a refresh token
\* of one active user are unexpired
Witness_C18 ==
    /\ resp = [route |-> "logout", status |-> 200]
    /\ \E a \in tokens :
          /\ a.payload["type"] = "access"
          /\ Unexpired(a) /\ ~NamesLockedOutUser(a)
          /\ MatchingRefreshTokens(a) # {}

----------------------------------------------------------------------------
(* Backend: the paginated list endpoints *)

\* query.offset(skip).limit(limit).all() on the rows the filters match
offset_limit(rows, skip, limit) ==
    [i \in 1..(IF Len(rows) - skip < limit
               THEN IF Len(rows) - skip < 0 THEN 0 ELSE Len(rows) - skip
               ELSE limit) |-> rows[skip + i]]

\* variant of PageCount that rounds down
PageCount_Floor(total, size) == total \div size

\* pages = (total + size - 1) // size
PageCount(total, size) == (total + size - 1) \div size

\* the body of get_departments, get_employees and get_system_logs: rows are
\* the rows the filters match, in the order of the query
list_page(rows, page, size) ==
    LET skip == (page - 1) * size IN
    [pc |-> "response", skip |-> skip,
     items |-> offset_limit(rows, skip, size),
     total |-> Len(rows), page |-> page, size |-> size,
     pages |-> PageCount(Len(rows), size)]

\* a request GET /{endpoint}/?page=&size= against a table in which the
\* filters match `total` rows; Query(ge=1) holds for page and size
PageInit ==
    /\ CoordIdle
    /\ users = << >>
    /\ id_seq = 0
    /\ tokens = {}
    /\ now = 0
    /\ resp = [route |-> "none", status |-> 0]
    /\ jwt_has_JWTError = FALSE
    /\ rt = "None"
    /\ OrgEmpty
    /\ reqs = << >>
    /\ pg \in {[pc |-> "request", endpoint |-> e, total |-> T, page |-> P, size |-> S] :
                 e \in {"departments", "employees", "system-logs"},
                 T \in 0..MaxTotal, P \in 1..MaxPage, S \in 1..MaxSize}

\* the rows the filters match, named by their position in the order
MatchedRows(total) == [i \in 1..total |-> i]

\* the endpoint answers the request
ListStep(endpoint) ==
    /\ pg.pc = "request"
    /\ pg.endpoint = endpoint
    /\ \E r \in {list_page(MatchedRows(pg.total), pg.page, pg.size)} :
          pg' = [pc |-> r.pc, endpoint |-> endpoint, skip |-> r.skip, items |-> r.items,
                 total |-> r.total, page |-> r.page, size |-> r.size, pages |-> r.pages]
    /\ UNCHANGED <<coordVars, authVars, rt, orgVars, reqs>>

\* GET /departments/
GetDepartments == ListStep("departments")

\* GET /employees/
GetEmployees == ListStep("employees")

\* GET /system-logs/
GetSystemLogs == ListStep("system-logs")

PageNext == GetDepartments \/ GetEmployees \/ GetSystemLogs

SpecPage == PageInit /\ [][PageNext]_vars

\* the least number of pages of the given size that hold `total` rows
Ceil(total, size) ==
    CHOOSE n \in 0..total : n * size >= total /\ \A m \in 0..(n - 1) : m * size < total

\* C19: every answer of the three list endpoints reports
\* pages = ceil(total / size) (3 for 25 rows in pages of 10, 0 for no rows),
\* has skipped (page - 1) * size rows, and holds at most size items: the
\* rows after the skipped ones, up to size of them
C19_PaginationLaw ==
    pg.pc = "response" =>
       /\ pg.pages = Ceil(pg.total, pg.size)
       /\ pg.total = 25 /\ pg.size = 10 => pg.pages = 3
       /\ pg.total = 0 => pg.pages = 0
       /\ pg.skip = (pg.page - 1) * pg.size
       /\ Len(pg.items) <= pg.size
       /\ \A i \in 1..Len(pg.items) : pg.items[i] = pg.skip + i
       /\ Len(pg.items) < pg.size => pg.skip + Len(pg.items) >= pg.total

\* the third page of 25 rows in pages of 10 was answered: 5 items, 3 pages
Witness_C19 ==
    /\ pg.pc = "response"
    /\ pg.total = 25 /\ pg.size = 10 /\ pg.page = 3
    /\ pg.pages = 3 /\ Len(pg.items) = 5

----------------------------------------------------------------------------
(* Seeding a database that users have registered in *)

\* registrations that take usernames and emails of the seed users
SeedRegisterInputs ==
    {[username |-> n, email |-> e, password |-> "bobpw1234",
      confirm_password |-> "bobpw1234"] :
        n \in {"admin", "testuser1", "bob"},
        e \in {"admin@example.com", "test1@example.com", "bob@x.io"}}

\* POST /register
RegisterSeed == Register(SeedRegisterInputs)

\* python seed.py seed, run as often as asked; an exception of seed_database
\* ends the script with exit status 1
RunSeed ==
    /\ \E r \in {seed_database(users, id_seq)} :
          /\ r.seq <= MaxUserId
          /\ users' = r.users
          /\ id_seq' = r.seq
          /\ resp' = [route |-> "seed", status |-> IF r.ok THEN 0 ELSE 1]
    /\ UNCHANGED <<tokens, now>>
    /\ AuthFrame

SeedNext == RegisterSeed \/ RunSeed

SpecSeed == AuthInit /\ [][SeedNext]_vars

\* username and email of the four seed users
SeedUsers ==
    {<<"admin", "admin@example.com">>} \cup
       {<<TestUsersData[i].username, TestUsersData[i].email>> : i \in DOMAIN TestUsersData}

\* the number of rows with the username
RowsNamed(us, username) == Cardinality({i \in DOMAIN us : us[i].username = username})

\* a seed user is missing while another user holds its email
SeedEmailHeld(us) ==
    \E ne \in SeedUsers : ~UsernameTaken(us, ne[1]) /\ EmailTaken(us, ne[2])

\* C20 as stated: a second run of seed_database leaves the users of the first
\* run, the first run leaves every existing row unmodified, and after it admin,
\* testuser1, testuser2 and developer are each present exactly once
C20_SeedingLeavesFourUsers ==
    \A s1 \in {seed_database(users, id_seq)} :
       /\ seed_database(s1.users, s1.seq).users = s1.users
       /\ \A i \in DOMAIN users : i \in DOMAIN s1.users /\ s1.users[i] = users[i]
       /\ \A ne \in SeedUsers : RowsNamed(s1.users, ne[1]) = 1

\* C20, amended: a second run of seed_database leaves the users of the first
\* run and ends as the first did; the first run leaves every existing row
\* unmodified; no seed username is ever present twice; and the run completes,
\* with each of the four present exactly once, exactly when no missing seed
\* user's email is held by another user (otherwise it raises)
C20_SeedingIdempotent ==
    \A s1 \in {seed_database(users, id_seq)} :
       \A s2 \in {seed_database(s1.users, s1.seq)} :
          /\ s2.users = s1.users /\ s2.seq = s1.seq /\ s2.ok = s1.ok
          /\ \A i \in DOMAIN users : i \in DOMAIN s1.users /\ s1.users[i] = users[i]
          /\ \A ne \in SeedUsers : RowsNamed(s1.users, ne[1]) <= 1
          /\ s1.ok <=> ~SeedEmailHeld(users)
          /\ s1.ok => \A ne \in SeedUsers : RowsNamed(s1.users, ne[1]) = 1

\* seed_database has just completed on a database in which a user had
\* registered as "admin": the four usernames are present once each and the
\* registered row is still no superuser
Witness_C20 ==
    /\ resp = [route |-> "seed", status |-> 0]
    /\ \A ne \in SeedUsers : RowsNamed(users, ne[1]) = 1
    /\ \E i \in DOMAIN users :
          users[i].username = "admin" /\ ~users[i].is_superuser

----------------------------------------------------------------------------
(* Task Coordinator: agents registered after construction *)

\* register_agent(name, capabilities, max_concurrent_tasks): stores a fresh
\* AgentInfo under the name, replacing whatever was registered under it
register_agent(st, name, caps, ceiling) ==
    [st |-> [st EXCEPT !.agents =
                [n \in DOMAIN st.agents \cup {name} |->
                    IF n = name THEN AgentInfo(caps, ceiling) ELSE st.agents[n]]],
     ret |-> TRUE]

\* the inputs drawn here: one task type, agents able to run it, small ceilings
RegisterNames == {NewAgent, "documentation_agent"}
CeilingsUsed == {1, 2}
AssignNames == {NoAgent, NewAgent, "documentation_agent"}

RegisterAgent ==
    \E name \in RegisterNames, ceiling \in CeilingsUsed :
        Install(register_agent(CoordState, name, {"documentation"}, ceiling).st)

AgentsCreateTask ==
    /\ Cardinality(DOMAIN tasks) < MaxTasks
    /\ Install(create_task(CoordState, "documentation", 2, {}).st)

AgentsAssignTask ==
    \E tid \in DOMAIN tasks, name \in AssignNames :
        Install(assign_task(CoordState, tid, name).st)

AgentsExecuteTask ==
    \E tid \in DOMAIN tasks, ok \in BOOLEAN :
        Install(execute_task(CoordState, tid, ok).st)

AgentsProcessQueue ==
    \E n \in 1..MaxBatch, oc \in Outcomes :
        Install(process_queue(CoordState, n, oc).st)

AgentsNext ==
    \/ RegisterAgent
    \/ AgentsCreateTask
    \/ AgentsAssignTask
    \/ AgentsExecuteTask
    \/ AgentsProcessQueue

SpecAgents == CoordInit /\ [][AgentsNext]_vars

----------------------------------------------------------------------------
(* Task Coordinator: claims about execute_task *)

\* C22: when execute_task returns true the task is completed with a stored
\* result, is no longer in task_queue, is in no agent's current-task list and
\* occurs exactly once in completed_tasks; execute_task on an unknown task or
\* on a task that is not assigned returns false and changes nothing.
C22_ExecuteSuccessEffects ==
    \A tid \in DOMAIN tasks \cup {UnknownTaskId}, ok \in BOOLEAN, e \in Exceptions :
        \A x \in {execute_task_raising(CoordState, tid, ok, e)} :
            /\ x.ret
               => /\ tid \in DOMAIN tasks
                  /\ x.st.tasks[tid].status = "completed"
                  /\ x.st.tasks[tid].result
                  /\ ~InSeq(x.st.task_queue, tid)
                  /\ \A n \in DOMAIN x.st.agents :
                        ~InSeq(x.st.agents[n].current_tasks, tid)
                  /\ Count(x.st.completed_tasks, tid) = 1
            /\ (tid \notin DOMAIN tasks \/ tasks[tid].status # "assigned")
               => ~x.ret /\ x.st = CoordState

\* one task has been executed to completion, and another call finds an
\* assigned task to run and a task that is not assigned to refuse
Witness_C22 ==
    \E t, u \in DOMAIN tasks :
        /\ tasks[t].status = "completed" /\ tasks[t].result
        /\ InSeq(completed_tasks, t)
        /\ tasks[u].status = "assigned"

\* the effects the failure branch of execute_task has on an assigned task
\* whose execution path raises e, but for the error text
FailureEffects(x, tid) ==
    /\ ~x.ret
    /\ x.st.tasks[tid].status = "failed"
    /\ x.st.tasks[tid].error # <<>>
    /\ ~x.st.tasks[tid].result
    /\ x.st.completed_tasks = completed_tasks

\* C23 (as stated): when the execution path of an assigned task raises any
\* error, execute_task returns false instead of raising, the task ends failed
\* with a non-empty error text and no result, and completed_tasks is unchanged.
C23_FailureHasNonEmptyErrorText ==
    \A tid \in DOMAIN tasks, e \in Exceptions :
        (tasks[tid].status = "assigned" /\ CanRaise(tasks[tid].task_type))
        => \A x \in {execute_task_raising(CoordState, tid, FALSE, e)} :
              /\ FailureEffects(x, tid)
              /\ x.st.tasks[tid].error[1] # ""

\* C23 (amended): when the execution path of an assigned task raises an
\* exception, execute_task returns false instead of raising, the task ends
\* failed with no result and with the text of the exception as its error: the
\* message the exception carries, or the empty text when it carries none;
\* completed_tasks is unchanged, and no failed task is in completed_tasks.
C23_ExecuteFailureHandling ==
    /\ \A tid \in DOMAIN tasks, e \in Exceptions :
          (tasks[tid].status = "assigned" /\ CanRaise(tasks[tid].task_type))
          => \A x \in {execute_task_raising(CoordState, tid, FALSE, e)} :
                /\ FailureEffects(x, tid)
                /\ e.args # <<>> => x.st.tasks[tid].error = <<e.args[1]>>
                /\ e.args = <<>> => x.st.tasks[tid].error = <<"">>
    /\ \A t \in DOMAIN tasks :
          tasks[t].status = "failed"
          => /\ tasks[t].error # <<>>
             /\ ~tasks[t].result
             /\ ~InSeq(completed_tasks, t)

\* a task has failed, and an assigned task whose execution path can raise is
\* there to be executed
Witness_C23 ==
    \E t, u \in DOMAIN tasks :
        /\ tasks[t].status = "failed" /\ tasks[t].error # <<>>
        /\ tasks[u].status = "assigned" /\ CanRaise(tasks[u].task_type)

----------------------------------------------------------------------------
(* Task Coordinator: claims about process_queue and find_best_agent *)

\* the tasks whose status a call that ends in state st has changed
StatusChanged(st) ==
    {t \in DOMAIN tasks : st.tasks[t].status # tasks[t].status}

\* C24: one call process_queue(max_concurrent = N) changes the status of at
\* most N tasks, for every queue content and every N >= 0.
C24_ProcessQueueBatchCap ==
    \A n \in 0..MaxBatch, oc \in Outcomes :
        \A x \in {process_queue(CoordState, n, oc)} :
            Cardinality(StatusChanged(x.st)) <= n

\* the registered agents that can take task t now: capable of its type,
\* marked available and below their ceiling
QualifyingAgents(t) ==
    IF t \notin DOMAIN tasks THEN {}
    ELSE {n \in DOMAIN agents :
             /\ tasks[t].task_type \in agents[n].capabilities
             /\ agents[n].is_available
             /\ Len(agents[n].current_tasks) < agents[n].max_concurrent_tasks}

\* C25: find_best_agent returns none exactly when no registered agent is
\* capable of the task's type, available and below its ceiling; otherwise it
\* returns such an agent, and no such agent holds fewer current tasks.
C25_FindBestAgent ==
    \A t \in DOMAIN tasks \cup {UnknownTaskId} :
        \A r \in {find_best_agent(CoordState, t)} :
            /\ r = NoAgent <=> QualifyingAgents(t) = {}
            /\ r # NoAgent
               => /\ r \in QualifyingAgents(t)
                  /\ \A m \in QualifyingAgents(t) :
                        Len(agents[r].current_tasks) <= Len(agents[m].current_tasks)

\* two agents qualify for a task and hold different numbers of tasks
Witness_C25 ==
    \E t \in DOMAIN tasks :
        \E n, m \in QualifyingAgents(t) :
            Len(agents[n].current_tasks) < Len(agents[m].current_tasks)

----------------------------------------------------------------------------
(* Task Coordinator: claims about the agents' current-task lists *)

\* C26: every id in an agent's current-task list is the id of a task in
\* status assigned or in_progress: the slot is released when the task
\* finishes, completed or failed.
C26_AgentSlotRelease ==
    \A n \in DOMAIN agents :
        \A i \in 1..Len(agents[n].current_tasks) :
            /\ agents[n].current_tasks[i] \in DOMAIN tasks
            /\ tasks[agents[n].current_tasks[i]].status \in {"assigned", "in_progress"}

\* C27: the agent of every task that is assigned, in progress, completed or
\* failed is registered, marked available and capable of the task's type,
\* whether find_best_agent chose it or the caller named it.
C27_CapabilityRespectingAssignment ==
    \A t \in DOMAIN tasks :
        tasks[t].status \in {"assigned", "in_progress", "completed", "failed"}
        => /\ tasks[t].assigned_agent \in DOMAIN agents
           /\ agents[tasks[t].assigned_agent].is_available
           /\ tasks[t].task_type \in agents[tasks[t].assigned_agent].capabilities

----------------------------------------------------------------------------
(* Task Coordinator: draining the queue by repeated process_queue calls *)

\* the dependency lists of a well-formed request: ids of registered tasks
\* only; a new task can only name tasks created before it, so no cycle forms
RegisteredDependencyLists ==
    {d \in SUBSET DOMAIN tasks : Cardinality(d) <= MaxDeps}

\* every execution path returns
AllSucceed == [t \in DOMAIN tasks |-> TRUE]

\* create_task with a type some default agent is capable of
DrainCreateTask ==
    /\ Cardinality(DOMAIN tasks) < MaxTasks
    /\ \E ty \in TaskTypesUsed, prio \in PrioritiesUsed,
          deps \in RegisteredDependencyLists :
          Install(create_task(CoordState, ty, prio, deps).st)

\* process_queue with max_concurrent >= 1 and every execution succeeding
DrainProcessQueue ==
    \E n \in 1..MaxBatch, oc \in {AllSucceed} :
        Install(process_queue(CoordState, n, oc).st)

DrainNext == DrainCreateTask \/ DrainProcessQueue

\* the caller keeps calling process_queue: a call that would change the
\* state is eventually made
SpecDrain == CoordInit /\ [][DrainNext]_vars /\ WF_vars(DrainProcessQueue)

\* C28: with dependencies that name registered tasks and form no cycle, a
\* capable agent for every task type and every execution succeeding,
\* repeated process_queue calls with max_concurrent >= 1 eventually bring
\* every created task to completed, whatever the priorities are.
C28_QueueDraining ==
    \A t \in 1..MaxTasks :
        (t \in DOMAIN tasks) ~> (t \in DOMAIN tasks /\ tasks[t].status = "completed")

----------------------------------------------------------------------------
(* Task Coordinator: task_queue and completed_tasks *)

\* C29: every registered task id occurs exactly once in task_queue or exactly
\* once in completed_tasks, never in both, and it is in completed_tasks
\* exactly when the task's status is completed; the two lists hold registered
\* ids only.
C29_QueueCompletedPartition ==
    /\ \A t \in DOMAIN tasks :
          /\ Count(task_queue, t) + Count(completed_tasks, t) = 1
          /\ InSeq(completed_tasks, t) <=> tasks[t].status = "completed"
    /\ \A i \in 1..Len(task_queue) : task_queue[i] \in DOMAIN tasks
    /\ \A i \in 1..Len(completed_tasks) : completed_tasks[i] \in DOMAIN tasks

\* one task has moved to completed_tasks while a task that has finished
\* without completing, failed or blocked, is still in the queue
Witness_C29 ==
    \E t, u \in DOMAIN tasks :
        /\ tasks[t].status = "completed" /\ InSeq(completed_tasks, t)
        /\ tasks[u].status \in {"failed", "blocked"} /\ InSeq(task_queue, u)

----------------------------------------------------------------------------
(* GET /departments/tree *)

RECURSIVE IdsInOrder(_)
\* the rows of a query in the order the model returns them: ascending id (the
\* rows of the model share one sort_order)
IdsInOrder(S) ==
    IF S = {} THEN <<>>
    ELSE LET m == CHOOSE i \in S : \A j \in S : i <= j
         IN  <<m>> \o IdsInOrder(S \ {m})

\* DepartmentCRUD.get_child_departments(db, parent_id): the active rows
\* whose parent_id is parent_id
get_child_departments(deps, parent_id) ==
    IdsInOrder({i \in DOMAIN deps :
                   deps[i].parent_id = parent_id /\ deps[i].is_active})

\* DepartmentCRUD.get_department_tree(db, parent_id): the active rows under
\* parent_id, or the active rows without parent when parent_id is None
get_department_tree(deps, parent_id) ==
    IdsInOrder({i \in DOMAIN deps :
                   deps[i].parent_id = parent_id /\ deps[i].is_active})

RECURSIVE build_tree(_, _, _)
\* build_tree(departments) at recursion depth `depth`: the ids of the
\* departments it builds a node for, in order, and whether some call went
\* beyond the recursion limit (Python raises RecursionError there)
build_tree(deps, ds, depth) ==
    IF depth > RecursionLimit THEN [overflow |-> TRUE, visited |-> <<>>]
    ELSE IF ds = <<>> THEN [overflow |-> FALSE, visited |-> <<>>]
    ELSE \* the loop body for the first department, then the rest of the loop
         LET children == get_child_departments(deps, Head(ds))
             sub == IF children # <<>> THEN build_tree(deps, children, depth + 1)
                    ELSE [overflow |-> FALSE, visited |-> <<>>]
             rest == build_tree(deps, Tail(ds), depth)
         IN  IF sub.overflow THEN [overflow |-> TRUE, visited |-> <<Head(ds)>> \o sub.visited]
             ELSE [overflow |-> rest.overflow,
                   visited |-> <<Head(ds)>> \o sub.visited \o rest.visited]

\* the route: 200 with the tree, or the unhandled RecursionError as a 500
get_department_tree_route(deps, parent_id) ==
    LET t == build_tree(deps, get_department_tree(deps, parent_id), 1)
    IN  [status |-> IF t.overflow THEN 500 ELSE 200, visited |-> t.visited]

\* C30: for every department table reached through create_department and
\* update_department and every parent_id argument, the recursive build_tree
\* of GET /departments/tree finishes with the tree and builds a node for each
\* active department at most once.
C30_TreeListingTerminates ==
    \A parent_id \in TreeIds \cup {NullId} :
        \A r \in {get_department_tree_route(departments, parent_id)} :
            /\ r.status = 200
            /\ \A d \in DOMAIN departments : Count(r.visited, d) <= 1

====
